---- MODULE Spec2Model ----
(***************************************************************************)
(* State-machine model of the multi-pair trading engine:                   *)
(*   core/risk_manager.py       RiskManager                                *)
(*   core/websocket_manager.py  WebSocketManager (ticker / kline caches)   *)
(*   core/bot_manager.py        BotManager (pair tasks, risk stop)         *)
(*   core/pair_manager.py       PairWorker (position state machine)        *)
(*   core/order_manager.py      OrderManager (order placement)             *)
(* Each subsystem has its own specification over the shared variables; the *)
(* variables a specification does not use keep their initial value.        *)
(***************************************************************************)
EXTENDS Integers, Sequences, FiniteSets, TLC

VARIABLES
    \* ---- RiskManager
    consecutive_losses,   \* RiskManager.consecutive_losses
    risk_result,          \* value returned by the last register_trade_result
    results,              \* history of the pnl values registered so far
    \* ---- WebSocketManager caches
    prices,               \* prices[symbol]: last ticker value, NoPrice when absent
    candles,              \* candles[symbol]: cached closed candles
    candle_versions,      \* candle_versions[symbol]
    feed_event,           \* the payload handled by the last feed step
    \* ---- BotManager task bookkeeping
    tasks,                \* tasks[symbol]: task id or NoTask
    task_state,           \* task_state[id] in {"free","created","running","done"}
    task_sym,             \* symbol whose run_loop the task executes
    task_cancel,          \* task.cancel() was requested and not yet delivered
    worker_running,       \* PairWorker.running of each pair
    stop_call,            \* stop_call[symbol]: the operator's stop_pair coroutine
    stop_all,             \* the stop_all_pairs coroutine spawned by record_trade
    restored,             \* pairs already restored by initialize
    phase,                \* "init" while initialize runs, then "run"
    started_after_trigger,\* a start_pair ran after the risk rule fired
    \* ---- one PairWorker (symbol MainSymbol), its task and its surroundings
    worker,               \* the PairWorker's fields
    pc,                   \* where the worker's run_loop task stands ("none": no task)
    loc,                  \* locals of the order the task is placing or awaiting
    now,                  \* the event loop's clock, in seconds
    active_order,         \* OrderManager.active_orders[symbol]: order id or NoOrder
    ex_orders,            \* the exchange's orders for the symbol, by order id
    ex_amt,               \* the exchange's position (futures, signed) or base balance (spot)
    ex_cost,              \* notional the exchange's position was entered at
    pair_settings,        \* BotManager.pair_settings[symbol]
    store_config,         \* the pair's config_json in the state store
    store_runtime,        \* the pair's runtime_json in the state store
    boot,                 \* "up", or "resync" while initialize resyncs the pair
    restarts,             \* process restarts so far
    closed_at,            \* loop time of the last take-profit, break-even or manual close
    closed_price,         \* its price as far as the program knows it, 0 if unknown
    last_step,            \* "gate" / "submit_entry" / "submit_safety" / "get_position" right after the task
                          \* passed the entry gate or submitted an order, else "other"
    \* ---- WebSocketManager: the Binance listener and the subscription set
    ws_running,           \* WebSocketManager._running
    listen_pc,            \* where the _listen_binance task stands ("none": no task)
    connection,           \* connections["binance"]: "none", or the socket "open" / "closed"
    subscribed_pairs,     \* subscribed_pairs["binance"]
    pair_timeframes,      \* pair_timeframes[pair], NoTimeframe when absent
    wire,                 \* the last message sent on the socket
    ws_step,              \* what the last listener step did
    offline,              \* pairs subscribed / unsubscribed since the socket was lost
    \* ---- StateStore: the pairs_state table
    db,                   \* db[pair_id]: the row (config_json, runtime_json texts) if present
    st_op,                \* the last StateStore call and its arguments
    loaded,               \* what the last load_all_pairs returned, <<>> after a write
    saved,                \* saved[pair_id]: the arguments of the last saves since the row was deleted
    \* ---- BotManager: the pair registry
    pairs,                \* pairs[symbol]: the PairWorker registered for the symbol, if any
    next_worker,          \* number of PairWorker instances created so far
    background,           \* coroutines handed to _spawn_background that have not run yet
    state_runtime_dirty,  \* _state_runtime_dirty: symbols waiting for a runtime save
    reg_op,               \* the last registry step, and the worker an add_pair returned
    remove_call,          \* symbols whose remove_pair is suspended before delete_pair
    \* ---- BacktestEngine.run_backtest next to a Paper worker fed the same bars
    bt_settings,          \* the settings both run with, NoSettings before the run starts
    bt_bar,               \* bars processed so far
    bt_position,          \* the engine's BacktestPosition, NoBtPosition for None
    bt_worker,            \* the PairWorker
    bt_event,             \* what the engine did at the last bar
    wk_event,             \* what the worker did at the last bar
    \* ---- BaseExchange.acquire_rate_limit
    rl_clock,             \* time.monotonic(), in ticks
    request_timestamps,   \* _request_timestamps
    request_queue,        \* number of entries in _request_queue
    rate_lock,            \* the caller that holds _rate_lock, NoCaller if free
    rate_waiters,         \* callers waiting for _rate_lock, oldest first
    rl_pc,                \* rl_pc[c]: where caller c is in acquire_rate_limit
    rl_wake,              \* rl_wake[c]: the tick at which c's sleep ends
    admissions,           \* ticks at which callers were admitted, oldest first
    \* ---- BaseStrategy.generate_signal
    sig_settings,         \* the five use_* toggles of the strategy settings
    sig_df,               \* the indicator values of the data frame handed in
    sig_out,              \* what generate_signal returned, "pending" before the call
    \* ---- one BacktestEngine object and the runs made on it
    engine,               \* its fields dataframe, equity_curve, trade_results
    bt_runs,              \* per run_backtest call: the frame, the settings and what came out
    \* ---- BacktestEngine.load_historical_data: the pagination loop
    pg_pc,                \* "idle", "get" (a request is out), "done" or "raised"
    pg_params,            \* params["startTime"], params["endTime"]
    pg_rows,              \* rows: the open times collected so far
    pg_page,              \* the payload of the last response
    pg_starts,            \* the startTime of every request of this call, in order
    pg_server,            \* open time of the newest kline the exchange has
    \* ---- the workers of one BotManager, as far as entry sizing looks at them
    fleet,                \* fleet[symbol]: position_open, total_cost, ... of pairs[symbol]
    \* ---- BotManager's debounced runtime save
    state_flush_task,     \* _state_flush_task: where _flush_runtime_state_debounced stands
    flush_dirty,          \* its local "dirty": the symbols it has still to save
    flush_saving,         \* the symbol and runtime handed to the store thread
    runtime_version,      \* runtime_version[symbol]: the worker's runtime state, numbered
    runtime_saved,        \* runtime_saved[symbol]: the runtime row of the store
    \* ---- the thread pool of asyncio.to_thread
    store_jobs,           \* save_pair_config calls handed to a thread and not yet run
    \* ---- BotManager.emergency_stop
    emergency,            \* where emergency_stop stands: "idle", "pass", "done"
    \* ---- StrategyOptimizer.run_grid_search
    grid                  \* the call: its combinations, tasks, semaphore and self.results

riskVars == <<consecutive_losses, risk_result, results>>
feedVars == <<prices, candles, candle_versions, feed_event>>
mgrVars  == <<tasks, task_state, task_sym, task_cancel, worker_running,
              stop_call, stop_all, restored, phase, started_after_trigger>>
wrkVars  == <<worker, pc, loc, now, active_order, ex_orders, ex_amt, ex_cost, pair_settings,
              store_config, store_runtime, boot, restarts, closed_at, closed_price,
              last_step>>
connVars == <<ws_running, listen_pc, connection, subscribed_pairs, pair_timeframes,
              wire, ws_step, offline>>
storeVars == <<db, st_op, loaded, saved>>
regVars  == <<pairs, next_worker, background, state_runtime_dirty, reg_op, remove_call>>
btVars   == <<bt_settings, bt_bar, bt_position, bt_worker, bt_event, wk_event>>
rateVars == <<rl_clock, request_timestamps, request_queue, rate_lock, rate_waiters,
              rl_pc, rl_wake, admissions>>
sigVars  == <<sig_settings, sig_df, sig_out>>
engVars  == <<engine, bt_runs>>
pageVars == <<pg_pc, pg_params, pg_rows, pg_page, pg_starts, pg_server>>
fleetVars == <<fleet>>
flushVars == <<state_flush_task, flush_dirty, flush_saving, runtime_version, runtime_saved>>
jobVars  == <<store_jobs>>
emVars   == <<emergency>>
gridVars == <<grid>>
extVars  == <<engVars, pageVars, fleetVars, flushVars, jobVars, emVars, gridVars>>
auxVars  == <<connVars, storeVars, regVars, btVars, rateVars, sigVars, extVars>>
coreVars == <<riskVars, feedVars, mgrVars, wrkVars, connVars, storeVars, regVars, btVars,
              rateVars, sigVars>>
vars == <<riskVars, feedVars, mgrVars, wrkVars, auxVars>>

Min(a, b) == IF a < b THEN a ELSE b
Max(a, b) == IF a > b THEN a ELSE b

(***************************************************************************)
(* RiskManager                                                             *)
(***************************************************************************)
LossLimit == 3
PnlValues == {0 - 1, 0, 1}
MaxResults == 5

register_trade_result_noreset(count, pnl) ==
    IF pnl < 0 THEN count + 1 ELSE count

\* the updated consecutive_losses; the call returns risk_rule(updated)
register_trade_result(count, pnl) ==
    IF pnl < 0 THEN count + 1 ELSE 0

risk_rule(count) == count >= LossLimit

RiskInit ==
    /\ consecutive_losses = 0
    /\ risk_result = FALSE
    /\ results = <<>>

RegisterTradeResult ==
    /\ Len(results) < MaxResults
    /\ \E pnl \in PnlValues :
         /\ consecutive_losses' = register_trade_result(consecutive_losses, pnl)
         /\ risk_result' = risk_rule(consecutive_losses')
         /\ results' = Append(results, pnl)
    /\ UNCHANGED <<feedVars, mgrVars, wrkVars, auxVars>>

(***************************************************************************)
(* WebSocketManager: ticker and kline handlers                             *)
(***************************************************************************)
FeedSymbols == {"BTCUSDT", "ETHUSDT"}
MainSymbol == "BTCUSDT"
NoSymbol == "none"
NoPrice == 0 - 1
BadField == 0 - 2          \* a field that float() rejects
MissingField == 0 - 3      \* a key that is absent from the payload
CandleCap == 200
MaxKlines == 202           \* closed klines fed per symbol
MaxSideKlines == 1         \* closed klines fed to symbols other than the first
TickerValues == {4, 5}

is_number(v) == v >= 0

Candle(k) == [open |-> k.o, high |-> k.h, low |-> k.l, close |-> k.c, volume |-> k.v]

WellFormedKline(sym, x, n) ==
    [e |-> "kline", s |-> sym,
     k |-> [x |-> x, o |-> n, h |-> n + 1, l |-> n, c |-> n + 1, v |-> 1]]

\* the kline payloads the feed delivers next for sym: the stream is scripted
\* by the number of candles already closed, so that every candle differs
\* from its neighbours
KlinePayloads(sym) ==
    LET n == candle_versions[sym] % 3 IN
    { WellFormedKline(sym, TRUE, n),
      WellFormedKline(sym, FALSE, n),
      [WellFormedKline(sym, TRUE, n) EXCEPT !.k.c = BadField],
      [WellFormedKline(sym, TRUE, n) EXCEPT !.k.v = MissingField],
      WellFormedKline(NoSymbol, TRUE, n) }

kline_accepted_ignoring_x(p) ==
    /\ p.s # NoSymbol
    /\ \A f \in {p.k.o, p.k.h, p.k.l, p.k.c, p.k.v} : is_number(f)

\* _handle_kline appends a candle and advances the version only for these
kline_accepted(p) ==
    /\ p.s # NoSymbol
    /\ p.k.x
    /\ \A f \in {p.k.o, p.k.h, p.k.l, p.k.c, p.k.v} : is_number(f)

append_candle(data, c) ==
    LET grown == Append(data, c) IN
    IF Len(grown) > CandleCap THEN Tail(grown) ELSE grown

FeedInit ==
    /\ prices = [s \in FeedSymbols |-> NoPrice]
    /\ candles = [s \in FeedSymbols |-> <<>>]
    /\ candle_versions = [s \in FeedSymbols |-> 0]
    /\ feed_event = [e |-> "none"]

HandleKline ==
    \E sym \in FeedSymbols :
      /\ candle_versions[sym] < (IF sym = MainSymbol THEN MaxKlines ELSE MaxSideKlines)
      /\ \E p \in KlinePayloads(sym) :
           /\ feed_event' = p
           /\ IF kline_accepted(p)
              THEN /\ candles' = [candles EXCEPT ![p.s] = append_candle(@, Candle(p.k))]
                   /\ candle_versions' = [candle_versions EXCEPT ![p.s] = @ + 1]
              ELSE UNCHANGED <<candles, candle_versions>>
      /\ UNCHANGED <<prices, riskVars, mgrVars, wrkVars, auxVars>>

TickerPayloads ==
    { [e |-> "miniTicker", s |-> s, c |-> v] :
        s \in FeedSymbols \cup {NoSymbol}, v \in TickerValues \cup {BadField, MissingField} }

HandleMiniTicker ==
    \E p \in TickerPayloads :
      /\ feed_event' = p
      /\ IF p.s # NoSymbol /\ p.c # MissingField /\ is_number(p.c)
         THEN prices' = [prices EXCEPT ![p.s] = p.c]
         ELSE UNCHANGED prices
      /\ UNCHANGED <<candles, candle_versions, riskVars, mgrVars, wrkVars, auxVars>>

(***************************************************************************)
(* BotManager: the pair registry (add_pair)                                *)
(***************************************************************************)
PairNames == {"BTCUSDT", "btcusdt", "BtcUsdt", "ETHUSDT"}
\* str.upper()
upper(name) == IF name \in {"btcusdt", "BtcUsdt"} THEN "BTCUSDT" ELSE name
ExchangeNames == {"Binance", "Bybit"}
Modes == {"Spot", "Futures"}
StartRunModes == {"Paper", "Backtest"}
MaxWorkers == 2
NoWorker == [present |-> FALSE, instance |-> 0, exchange_name |-> "", mode |-> "", run_mode |-> ""]
NoRegCall == [op |-> "none", sym |-> NoSymbol, returned |-> 0]

RegInit ==
    /\ pairs = [s \in FeedSymbols |-> NoWorker]
    /\ next_worker = 0
    /\ background = {}
    /\ state_runtime_dirty = {}
    /\ reg_op = NoRegCall
    /\ remove_call = {}

add_pair_always(reg, name, mode, exchange_name, run_mode) ==
    LET normalized == upper(name) IN
    [pairs |-> [reg.pairs EXCEPT ![normalized] =
                   [present |-> TRUE, instance |-> reg.next_worker + 1,
                    exchange_name |-> exchange_name, mode |-> mode, run_mode |-> run_mode]],
     next_worker |-> reg.next_worker + 1,
     background |-> reg.background \cup {[co |-> "save_pair_config", sym |-> normalized]},
     dirty |-> reg.dirty \cup {normalized},
     returned |-> reg.next_worker + 1]

\* BotManager.add_pair; run_mode is the run_mode of the settings that
\* get_pair_strategy_settings returns for the symbol
add_pair(reg, name, mode, exchange_name, run_mode) ==
    LET normalized == upper(name) IN
    IF ~reg.pairs[normalized].present
    THEN [pairs |-> [reg.pairs EXCEPT ![normalized] =
                       [present |-> TRUE, instance |-> reg.next_worker + 1,
                        exchange_name |-> exchange_name, mode |-> mode, run_mode |-> run_mode]],
          next_worker |-> reg.next_worker + 1,
          background |-> reg.background
                           \cup (IF exchange_name = "Binance"
                                 THEN {[co |-> "subscribe", sym |-> normalized]} ELSE {})
                           \cup {[co |-> "save_pair_config", sym |-> normalized]},
          dirty |-> reg.dirty \cup {normalized},
          returned |-> reg.next_worker + 1]
    ELSE [pairs |-> reg.pairs, next_worker |-> reg.next_worker, background |-> reg.background,
          dirty |-> reg.dirty, returned |-> reg.pairs[normalized].instance]

Registry == [pairs |-> pairs, next_worker |-> next_worker, background |-> background,
             dirty |-> state_runtime_dirty]

(***************************************************************************)
(* BotManager: pair tasks, start_pair / stop_pair, risk-triggered stop     *)
(***************************************************************************)
Pairs == FeedSymbols
PairOrder == <<"BTCUSDT", "ETHUSDT">>     \* iteration order of the tasks dict
NoTask == 0
MaxTasks == 3
MaxLossStreak == 3
TaskIds == 1..MaxTasks

TaskAlive(t) == task_state[t] \in {"created", "running"}      \* not task.done()
FreeIds == {t \in TaskIds : task_state[t] = "free"}
IdleCall == [pc |-> "idle", task |-> NoTask]
IdleStopAll == [pc |-> "idle", keys |-> <<>>, cur |-> NoSymbol, task |-> NoTask]

MgrInit ==
    /\ tasks = [s \in Pairs |-> NoTask]
    /\ task_state = [t \in TaskIds |-> "free"]
    /\ task_sym = [t \in TaskIds |-> NoSymbol]
    /\ task_cancel = [t \in TaskIds |-> FALSE]
    /\ worker_running = [s \in Pairs |-> FALSE]
    /\ stop_call = [s \in Pairs |-> IdleCall]
    /\ stop_all = IdleStopAll
    /\ restored = {}
    /\ phase = "init"
    /\ started_after_trigger = FALSE

\* start_pair returns before looking at tasks: the pair is unknown, its
\* exchange is not Binance, or its run_mode is Backtest
start_refused(w) == ~w.present \/ w.exchange_name # "Binance" \/ w.run_mode = "Backtest"

\* BotManager.start_pair, called when the registry is pairs'
start_pair(sym) ==
    LET task == tasks[sym] IN
    IF start_refused(pairs'[sym]) \/ (task # NoTask /\ TaskAlive(task))
    THEN UNCHANGED <<tasks, task_state, task_sym, task_cancel>>
    ELSE /\ FreeIds # {}
         /\ LET n == CHOOSE t \in FreeIds : \A u \in FreeIds : t <= u IN
              /\ tasks' = [tasks EXCEPT ![sym] = n]
              /\ task_state' = [task_state EXCEPT ![n] = "created"]
              /\ task_sym' = [task_sym EXCEPT ![n] = sym]
              /\ task_cancel' = [task_cancel EXCEPT ![n] = FALSE]

\* schedule_runtime_save(sym) at the end of a start_pair that created a task
task_created(sym) == IF tasks'[sym] # tasks[sym] THEN {sym} ELSE {}

\* _restore_pair_from_state: add_pair, apply_runtime_state, then auto-resume
RestorePair ==
    /\ phase = "init"
    /\ \E sym \in Pairs \ restored, is_running \in BOOLEAN, auto_resume \in BOOLEAN,
          mode \in Modes, exchange_name \in ExchangeNames, run_mode \in StartRunModes :
         LET r == add_pair(Registry, sym, mode, exchange_name, run_mode) IN
         /\ restored' = restored \cup {sym}
         /\ pairs' = r.pairs
         /\ next_worker' = r.next_worker
         /\ background' = r.background
         /\ reg_op' = [op |-> "add_pair", sym |-> sym, returned |-> r.returned]
         /\ worker_running' = [worker_running EXCEPT ![sym] = is_running]
         /\ IF auto_resume /\ is_running
            THEN start_pair(sym)
            ELSE UNCHANGED <<tasks, task_state, task_sym, task_cancel>>
         /\ state_runtime_dirty' = r.dirty \cup task_created(sym)
    /\ UNCHANGED <<stop_call, stop_all, phase, started_after_trigger, remove_call,
                   riskVars, feedVars, wrkVars, connVars, storeVars, btVars, rateVars, sigVars, extVars>>

InitializeDone ==
    /\ phase = "init"
    /\ phase' = "run"
    /\ UNCHANGED <<tasks, task_state, task_sym, task_cancel, worker_running, stop_call,
                   stop_all, restored, started_after_trigger, riskVars, feedVars, wrkVars, auxVars>>

StartPair ==
    /\ phase = "run"
    /\ UNCHANGED pairs
    /\ \E sym \in Pairs :
         /\ start_pair(sym)
         /\ state_runtime_dirty' = state_runtime_dirty \cup task_created(sym)
    /\ started_after_trigger' = (started_after_trigger \/ stop_all.pc # "idle")
    /\ UNCHANGED <<worker_running, stop_call, stop_all, restored, phase, next_worker,
                   background, reg_op, remove_call, riskVars, feedVars, wrkVars,
                   connVars, storeVars, btVars, rateVars, sigVars, extVars>>

\* one scheduling step of a run_loop task
TaskStep ==
    /\ \E t \in TaskIds :
         /\ TaskAlive(t)
         /\ LET sym == task_sym[t] IN
            IF task_cancel[t]
            THEN \* CancelledError is thrown into the coroutine
                 /\ task_state' = [task_state EXCEPT ![t] = "done"]
                 /\ task_cancel' = [task_cancel EXCEPT ![t] = FALSE]
                 /\ worker_running' = IF task_state[t] = "running"
                                      THEN [worker_running EXCEPT ![sym] = FALSE]
                                      ELSE worker_running
            ELSE IF task_state[t] = "created"
            THEN \* run_loop begins: start() sets running
                 /\ task_state' = [task_state EXCEPT ![t] = "running"]
                 /\ worker_running' = [worker_running EXCEPT ![sym] = TRUE]
                 /\ UNCHANGED task_cancel
            ELSE \* the loop wakes from its sleep and finds running false
                 /\ ~worker_running[sym]
                 /\ task_state' = [task_state EXCEPT ![t] = "done"]
                 /\ UNCHANGED <<worker_running, task_cancel>>
    /\ UNCHANGED <<tasks, task_sym, stop_call, stop_all, restored, phase,
                   started_after_trigger, riskVars, feedVars, wrkVars, auxVars>>

\* stop_pair up to its first suspension: the outcome for the caller and the
\* shared state (tk: tasks, wr: worker running flags, tc: cancel requests)
stop_pair_begin(sym, tk, wr, tc) ==
    LET task == tk[sym]
        wr2 == [wr EXCEPT ![sym] = FALSE] IN
    IF task = NoTask
    THEN [suspended |-> FALSE, task |-> NoTask, tk |-> tk, wr |-> wr2, tc |-> tc]
    ELSE IF ~TaskAlive(task)
    THEN [suspended |-> FALSE, task |-> NoTask,
          tk |-> [tk EXCEPT ![sym] = NoTask], wr |-> wr2, tc |-> tc]
    ELSE [suspended |-> TRUE, task |-> task, tk |-> tk, wr |-> wr2,
          tc |-> [tc EXCEPT ![task] = TRUE]]

StopPairBegin ==
    /\ phase = "run"
    /\ \E sym \in Pairs :
         /\ stop_call[sym].pc = "idle"
         /\ LET r == stop_pair_begin(sym, tasks, worker_running, task_cancel) IN
              /\ tasks' = r.tk
              /\ worker_running' = r.wr
              /\ task_cancel' = r.tc
              /\ stop_call' = [stop_call EXCEPT ![sym] =
                     IF r.suspended THEN [pc |-> "await", task |-> r.task] ELSE IdleCall]
              /\ state_runtime_dirty' = IF r.suspended THEN state_runtime_dirty
                                        ELSE state_runtime_dirty \cup {sym}
    /\ UNCHANGED <<task_state, task_sym, stop_all, restored, phase, started_after_trigger,
                   pairs, next_worker, background, reg_op, remove_call,
                   riskVars, feedVars, wrkVars, connVars, storeVars, btVars, rateVars, sigVars, extVars>>

\* stop_pair resumes from "await task" and removes the tasks entry
StopPairResume ==
    /\ \E sym \in Pairs :
         /\ stop_call[sym].pc = "await"
         /\ task_state[stop_call[sym].task] = "done"
         /\ tasks' = [tasks EXCEPT ![sym] = NoTask]
         /\ stop_call' = [stop_call EXCEPT ![sym] = IdleCall]
         /\ state_runtime_dirty' = state_runtime_dirty \cup {sym}
    /\ UNCHANGED <<task_state, task_sym, task_cancel, worker_running, stop_all, restored,
                   phase, started_after_trigger, pairs, next_worker, background, reg_op,
                   remove_call, riskVars, feedVars, wrkVars, connVars, storeVars, btVars, rateVars, sigVars, extVars>>

\* stop_all_pairs runs stop_pair for the listed keys until one suspends
RECURSIVE stop_all_run(_, _, _, _)
stop_all_run(keys, tk, wr, tc) ==
    IF keys = <<>>
    THEN [call |-> [pc |-> "done", keys |-> <<>>, cur |-> NoSymbol, task |-> NoTask],
          tk |-> tk, wr |-> wr, tc |-> tc]
    ELSE LET r == stop_pair_begin(Head(keys), tk, wr, tc) IN
         IF r.suspended
         THEN [call |-> [pc |-> "await", keys |-> Tail(keys), cur |-> Head(keys),
                         task |-> r.task],
               tk |-> r.tk, wr |-> r.wr, tc |-> r.tc]
         ELSE stop_all_run(Tail(keys), r.tk, r.wr, r.tc)

\* the symbols whose stop_pair ran to its end, schedule_runtime_save included
stop_all_finished(keys, call) ==
    { keys[i] : i \in DOMAIN keys } \ ({ call.keys[i] : i \in DOMAIN call.keys } \cup {call.cur})

StopAllBegin ==
    /\ stop_all.pc = "spawned"
    /\ LET keys == SelectSeq(PairOrder, LAMBDA s : tasks[s] # NoTask)
           r == stop_all_run(keys, tasks, worker_running, task_cancel) IN
         /\ stop_all' = r.call
         /\ tasks' = r.tk
         /\ worker_running' = r.wr
         /\ task_cancel' = r.tc
         /\ state_runtime_dirty' = state_runtime_dirty \cup stop_all_finished(keys, r.call)
    /\ UNCHANGED <<task_state, task_sym, stop_call, restored, phase, started_after_trigger,
                   pairs, next_worker, background, reg_op, remove_call,
                   riskVars, feedVars, wrkVars, connVars, storeVars, btVars, rateVars, sigVars, extVars>>

StopAllResume ==
    /\ stop_all.pc = "await"
    /\ task_state[stop_all.task] = "done"
    /\ LET r == stop_all_run(stop_all.keys, [tasks EXCEPT ![stop_all.cur] = NoTask],
                             worker_running, task_cancel) IN
         /\ stop_all' = r.call
         /\ tasks' = r.tk
         /\ worker_running' = r.wr
         /\ task_cancel' = r.tc
         /\ state_runtime_dirty' = state_runtime_dirty \cup {stop_all.cur}
                                      \cup stop_all_finished(stop_all.keys, r.call)
    /\ UNCHANGED <<task_state, task_sym, stop_call, restored, phase, started_after_trigger,
                   pairs, next_worker, background, reg_op, remove_call,
                   riskVars, feedVars, wrkVars, connVars, storeVars, btVars, rateVars, sigVars, extVars>>

\* BotManager.record_trade, called by a run_loop that closed a position
RecordTrade ==
    /\ phase = "run"
    /\ consecutive_losses < MaxLossStreak
    /\ stop_all.pc \in {"idle", "done"}
    /\ \E t \in TaskIds, pnl \in PnlValues :
         /\ task_state[t] = "running" /\ ~task_cancel[t]
         /\ consecutive_losses' = register_trade_result(consecutive_losses, pnl)
         /\ risk_result' = risk_rule(consecutive_losses')
         /\ IF risk_result'
            THEN /\ stop_all' = [IdleStopAll EXCEPT !.pc = "spawned"]
                 /\ started_after_trigger' = FALSE
            ELSE UNCHANGED <<stop_all, started_after_trigger>>
    /\ UNCHANGED <<results, tasks, task_state, task_sym, task_cancel, worker_running,
                   stop_call, restored, phase, feedVars, wrkVars, auxVars>>

(***************************************************************************)
(* PairWorker, OrderManager and the exchange (src/core/pair_manager.py,   *)
(* src/core/order_manager.py, src/core/bot_manager.py)                     *)
(*                                                                         *)
(* One worker trades MainSymbol.  Amounts are integers: quantities are     *)
(* quantised to one unit, prices come from Prices, and a price that is a   *)
(* quotient (average, take-profit, break-even) is the pair n/d, compared   *)
(* by cross multiplication.  A Tick is TickSec seconds of loop time.       *)
(* Exchange-side protection orders are switched off                         *)
(* (protection_orders_on_exchange = False).                                *)
(***************************************************************************)
Prices == {3, 4, 5}
TickSec == 60
StartTime == 60
MaxTime == 120
MaxOrders == 2
MaxCandles == 2
MaxRestarts == 1
SyncPeriod == 30
NoOrder == 0
OrderIds == 1..MaxOrders

Rat(n, d) == [n |-> n, d |-> d]
ZeroRat == Rat(0, 1)
\* None for an optional price
NoneRat == Rat(0, 0)
RatIsNone(r) == r.d = 0
RatLess(a, b) == a.n * b.d < b.n * a.d
RatLeq(a, b) == a.n * b.d <= b.n * a.d
RatOfInt(i) == Rat(i, 1)
\* the float 0.0 or None read back as None ("x or None")
RatOrNone(r) == IF r.n = 0 THEN NoneRat ELSE r
\* None written as the float 0.0 ("float(x or 0.0)")
RatOrZero(r) == IF RatIsNone(r) THEN ZeroRat ELSE r

\* StrategySettings: the fields the worker's order flow reads
DefaultSettings ==
    [ run_mode |-> "Live", mode |-> "Spot", enable_futures |-> FALSE,
      use_market_order |-> TRUE, futures_position_side |-> "Long",
      base_order_size_usdt |-> 60, order_timeout_sec |-> 1, commission_pct |-> 5,
      safety_step_pct |-> 10, safety_orders_count |-> 1, volume_multiplier |-> 2,
      take_profit_pct |-> 25, break_even_after_percent |-> 10,
      cooldown_minutes |-> 1, anti_reentry_threshold_pct |-> 10 ]
\* no settings (None)
NoSettings == [DefaultSettings EXCEPT !.run_mode = "None"]
\* the configurations a pair is added with
SettingsProfiles ==
    { [DefaultSettings EXCEPT !.run_mode = "Paper"],
      [DefaultSettings EXCEPT !.run_mode = "Paper", !.base_order_size_usdt = 0],
      [DefaultSettings EXCEPT !.use_market_order = FALSE],
      [DefaultSettings EXCEPT !.mode = "Futures", !.enable_futures = TRUE],
      [DefaultSettings EXCEPT !.mode = "Futures", !.enable_futures = TRUE,
                              !.use_market_order = FALSE,
                              !.futures_position_side = "Short"] }
\* what the operator changes in the strategy tab while the pair exists: fewer
\* safety orders
SettingsUpdates(st) ==
    { [st EXCEPT !.safety_orders_count = c] : c \in 0..(st.safety_orders_count - 1) }

\* PairWorker.__init__
NewWorker(settings) ==
    [ running |-> FALSE, position_open |-> FALSE, order_in_progress |-> FALSE,
      safety_order_in_progress |-> FALSE, direction |-> "LONG",
      take_profit_price |-> NoneRat, safety_orders_used |-> 0,
      total_qty |-> 0, total_cost |-> 0, average_price |-> ZeroRat,
      last_order_usdt |-> 0, break_even_armed |-> FALSE, break_even_price |-> ZeroRat,
      last_position_sync |-> 0, last_close_timestamp |-> 0, last_close_price |-> 0,
      last_candle_version |-> 0, pending_strategy_settings |-> NoSettings,
      mode |-> settings.mode, strategy_settings |-> settings,
      \* history, not a field of the class: positions opened by a fill (on the
      \* exchange, or in the paper book) minus on_trade_closed calls; kept at -1
      \* once a report came without a position
      opened_minus_reported |-> 0 ]

is_futures_mode(w) == w.strategy_settings.enable_futures /\ w.mode = "Futures"

\* PairWorker.get_runtime_state, with is_running as _save_pair_runtime sets it
get_runtime_state(w, task_alive) ==
    [ is_running |-> task_alive, position_open |-> w.position_open,
      direction |-> w.direction, average_price |-> w.average_price,
      total_qty |-> w.total_qty, total_cost |-> w.total_cost,
      safety_orders_used |-> w.safety_orders_used,
      take_profit_price |-> RatOrZero(w.take_profit_price),
      break_even_armed |-> w.break_even_armed, break_even_price |-> w.break_even_price,
      last_entry_time |-> w.last_close_timestamp ]

apply_runtime_state(w, rt) ==
    [ w EXCEPT !.running = rt.is_running, !.position_open = rt.position_open,
               !.direction = rt.direction, !.average_price = rt.average_price,
               !.total_qty = rt.total_qty, !.total_cost = rt.total_cost,
               !.safety_orders_used = rt.safety_orders_used,
               !.take_profit_price = RatOrNone(rt.take_profit_price),
               !.break_even_armed = rt.break_even_armed,
               !.break_even_price = rt.break_even_price,
               !.last_close_timestamp = rt.last_entry_time ]

update_settings(w, settings) ==
    IF w.position_open
    THEN [w EXCEPT !.pending_strategy_settings = settings]
    ELSE [w EXCEPT !.strategy_settings = settings]

\* average_price * (1 +/- take_profit_pct / 100)
recalculate_tp(w) ==
    LET pct == w.strategy_settings.take_profit_pct
        f   == IF w.direction = "LONG" THEN 100 + pct ELSE 100 - pct
    IN  [w EXCEPT !.take_profit_price = Rat(w.average_price.n * f, w.average_price.d * 100)]

reset_position_state(w) ==
    [ w EXCEPT !.position_open = FALSE, !.order_in_progress = FALSE,
               !.take_profit_price = NoneRat, !.safety_orders_used = 0,
               !.total_qty = 0, !.total_cost = 0, !.average_price = ZeroRat,
               !.last_order_usdt = 0, !.safety_order_in_progress = FALSE,
               !.break_even_armed = FALSE, !.break_even_price = ZeroRat ]

\* the history count after a fill (one that adds to a position the exchange and
\* the worker both hold opens nothing), and after self.on_trade_closed(...)
position_opened(w, held) ==
    IF held THEN w ELSE [w EXCEPT !.opened_minus_reported = w.opened_minus_reported + 1]
on_trade_closed(w) ==
    [w EXCEPT !.opened_minus_reported = Max(0 - 1, w.opened_minus_reported - 1)]

\* the state update of _open_order_with_usdt for a fill of qty at price
apply_fill_stale_average(w, qty, price) ==
    LET commission == (w.strategy_settings.commission_pct * qty * price) \div 100
    IN  recalculate_tp([w EXCEPT !.position_open = TRUE,
                                 !.total_qty = w.total_qty + qty,
                                 !.total_cost = w.total_cost + qty * price + commission,
                                 !.average_price = IF w.total_qty = 0
                                                   THEN Rat(qty * price + commission, qty)
                                                   ELSE w.average_price])

apply_fill(w, qty, price) ==
    LET commission == (w.strategy_settings.commission_pct * qty * price) \div 100
        cost == w.total_cost + qty * price + commission
        w1 == recalculate_tp([w EXCEPT !.position_open = TRUE,
                                       !.total_qty = w.total_qty + qty,
                                       !.total_cost = cost,
                                       !.average_price = Rat(cost, w.total_qty + qty)])
    IN  [w1 EXCEPT !.break_even_price = w1.average_price]

\* "self.average_price = self.total_cost / self.total_qty" divides by zero
fill_raises(w, qty) == w.total_qty + qty = 0
\* what _open_order_with_usdt has assigned when the division raises
apply_fill_raised(w) == [w EXCEPT !.position_open = TRUE]

\* _is_entry_blocked at loop time t with ticker price p
cooldown_active(w, t) ==
    LET cooldown_sec == Max(0, w.strategy_settings.cooldown_minutes * 60)
    IN  cooldown_sec > 0 /\ (t - w.last_close_timestamp) < cooldown_sec

anti_reentry_active(w, p) ==
    /\ w.last_close_price > 0
    /\ p # NoPrice
    /\ LET delta == IF p >= w.last_close_price THEN p - w.last_close_price
                                               ELSE w.last_close_price - p
       IN  delta * 100 < w.strategy_settings.anti_reentry_threshold_pct * w.last_close_price

is_entry_blocked(w, t, p) == cooldown_active(w, t) \/ anti_reentry_active(w, p)

\* ---- the exchange
NoExOrder == [status |-> "free", side |-> "BUY", qty |-> 0, price |-> 0]
FreeOrderIds == {i \in OrderIds : ex_orders[i].status = "free"}
PendingOrders(orders) == {i \in OrderIds : orders[i].status = "NEW"}
\* position after an order of qty at price trades; the entry notional is
\* kept for the futures position only (spot balances carry no entry price)
amt_after_trade(amt, side, qty) == IF side = "BUY" THEN amt + qty ELSE amt - qty
cost_after_trade(w, cost, qty, price) == IF w.mode = "Futures" THEN cost + qty * price ELSE cost
\* futures_cancel_open_orders / spot_cancel_open_orders
cancel_open_orders(orders) ==
    [i \in OrderIds |-> IF orders[i].status = "NEW"
                        THEN [orders[i] EXCEPT !.status = "CANCELED"] ELSE orders[i]]
\* cancel_order for one id: only an open order is cancelled, else the call fails
cancel_order(orders, id) ==
    IF id # NoOrder /\ orders[id].status = "NEW"
    THEN [orders EXCEPT ![id].status = "CANCELED"] ELSE orders

\* ---- the run_loop task
IdleLoc == [kind |-> "none", usdt |-> 0, order_id |-> NoOrder, elapsed |-> 0, reason |-> "none"]
Signals == {"LONG", "SHORT", "NONE"}
\* the task is suspended in an await (or there is no task): other coroutines run
AtAwait == pc \in {"none", "sizing", "order_wait", "order_cancel", "closing", "sleep"}
NoClose == UNCHANGED <<closed_at, closed_price>>
TaskFrame == UNCHANGED <<riskVars, mgrVars, feedVars, auxVars, now, pair_settings, store_config,
                         store_runtime, boot, restarts>>
ExchangeFrame == UNCHANGED <<active_order, ex_orders, ex_amt, ex_cost>>

\* "finally: self.order_in_progress = False"
order_finally(w) == [w EXCEPT !.order_in_progress = FALSE]
\* _process_dca after _open_order_with_usdt returned, with its finally
dca_after_order(w, usdt) ==
    LET w1 == IF w.position_open
              THEN [w EXCEPT !.last_order_usdt = usdt,
                             !.safety_orders_used = w.safety_orders_used + 1,
                             !.break_even_price = w.average_price]
              ELSE w
    IN  [w1 EXCEPT !.safety_order_in_progress = FALSE]
after_order(w, kind, usdt) == IF kind = "entry" THEN w ELSE dca_after_order(w, usdt)
\* the entry followed by break-even and the safety order by the DCA step
pc_after_order_swapped(kind) == IF kind = "entry" THEN "be" ELSE "dca"
pc_after_order(kind) == IF kind = "entry" THEN "dca" ELSE "be"
submitted(kind) == IF kind = "entry" THEN "submit_entry" ELSE "submit_safety"

\* _open_order_with_usdt up to its first await (Live) or to its end (Paper);
\* mark is the futures mark price, accepted the exchange's answer to place_order
open_order_with_usdt(w, usdt, kind, mark, accepted) ==
    LET st  == w.strategy_settings
        p   == prices[MainSymbol]
        w1  == [w EXCEPT !.order_in_progress = TRUE, !.last_order_usdt = usdt]
        cur == IF p = NoPrice /\ is_futures_mode(w) THEN mark ELSE p
        qty == IF cur = NoPrice THEN 0 ELSE usdt \div cur
        side == IF is_futures_mode(w) /\ w.direction # "LONG" THEN "SELL" ELSE "BUY"
        id  == IF FreeOrderIds = {} THEN NoOrder ELSE CHOOSE i \in FreeOrderIds : \A j \in FreeOrderIds : i <= j
    IN  IF w.order_in_progress
        THEN /\ worker' = after_order(w, kind, usdt)
             /\ pc' = pc_after_order(kind)
             /\ last_step' = "other"
             /\ UNCHANGED loc /\ ExchangeFrame
        ELSE IF st.run_mode = "Paper" /\ p # NoPrice /\ fill_raises(w1, usdt \div p)
        THEN \* ZeroDivisionError leaves through both finally blocks to run_loop's handler
             /\ worker' = [apply_fill_raised(w1) EXCEPT !.order_in_progress = FALSE,
                                                        !.safety_order_in_progress = FALSE]
             /\ pc' = "sleep"
             /\ last_step' = submitted(kind)
             /\ UNCHANGED loc /\ ExchangeFrame
        ELSE IF st.run_mode = "Paper"
        THEN /\ worker' = after_order(order_finally(
                                          IF p = NoPrice THEN w1
                                          ELSE apply_fill(position_opened(w1, w1.position_open),
                                                          usdt \div p, p)),
                                      kind, usdt)
             /\ pc' = pc_after_order(kind)
             /\ last_step' = IF p = NoPrice THEN "other" ELSE submitted(kind)
             /\ UNCHANGED loc /\ ExchangeFrame
        ELSE IF qty <= 0 \/ ~accepted \/ id = NoOrder
        THEN /\ worker' = after_order(order_finally(w1), kind, usdt)
             /\ pc' = pc_after_order(kind)
             /\ last_step' = "other"
             /\ UNCHANGED loc /\ ExchangeFrame
        ELSE /\ worker' = IF st.use_market_order THEN position_opened(w1, kind = "safety") ELSE w1
             /\ pc' = "order_wait"
             /\ loc' = [IdleLoc EXCEPT !.kind = kind, !.usdt = usdt, !.order_id = id]
             /\ last_step' = submitted(kind)
             /\ active_order' = id
             /\ IF st.use_market_order
                THEN /\ ex_orders' = [ex_orders EXCEPT ![id] =
                            [status |-> "FILLED", side |-> side, qty |-> qty, price |-> cur]]
                     /\ ex_amt' = amt_after_trade(ex_amt, side, qty)
                     /\ ex_cost' = cost_after_trade(w, ex_cost, qty, cur)
                ELSE /\ ex_orders' = [ex_orders EXCEPT ![id] =
                            [status |-> "NEW", side |-> side, qty |-> qty, price |-> cur]]
                     /\ UNCHANGED <<ex_amt, ex_cost>>

\* _process_closed_candle_if_needed, into _open_initial_position up to its await
ProcessClosedCandle ==
    /\ pc = "candle"
    /\ LET version == candle_versions[MainSymbol] IN
       IF version = 0 \/ version = worker.last_candle_version
       THEN /\ pc' = "dca" /\ last_step' = "other" /\ UNCHANGED worker
       ELSE \E signal \in Signals :
              LET w1 == [worker EXCEPT !.last_candle_version = version] IN
              IF /\ signal = "LONG" /\ ~w1.position_open /\ ~w1.order_in_progress
                 /\ ~is_entry_blocked(w1, now, prices[MainSymbol])
              THEN /\ worker' = [w1 EXCEPT !.direction =
                          IF is_futures_mode(w1) /\ w1.strategy_settings.futures_position_side = "Short"
                          THEN "SHORT" ELSE "LONG"]
                   /\ pc' = "sizing"
                   /\ last_step' = "gate"
              ELSE /\ worker' = w1 /\ pc' = "dca" /\ last_step' = "other"
    /\ UNCHANGED loc /\ ExchangeFrame /\ TaskFrame /\ NoClose

\* calculate_entry_size_usdt answers, then _open_order_with_usdt(base_usdt)
EntrySized ==
    /\ pc = "sizing"
    /\ \E funds_ok \in BOOLEAN, mark \in Prices, accepted \in BOOLEAN :
         IF ~funds_ok
         THEN /\ pc' = "dca" /\ last_step' = "other"
              /\ UNCHANGED <<worker, loc>> /\ ExchangeFrame
         ELSE open_order_with_usdt(worker, worker.strategy_settings.base_order_size_usdt,
                                   "entry", mark, accepted)
    /\ TaskFrame /\ NoClose

\* open_position_spot / open_position_futures after place_order: the order
\* monitor's poll (LIMIT) and the final get_order_status
OrderMonitor ==
    /\ pc = "order_wait"
    /\ LET o == ex_orders[loc.order_id] IN
       IF o.status = "FILLED"
       THEN /\ worker' = after_order(order_finally(apply_fill(worker, o.qty, o.price)),
                                     loc.kind, loc.usdt)
            /\ pc' = pc_after_order(loc.kind)
            /\ loc' = IdleLoc
            /\ active_order' = NoOrder
            /\ UNCHANGED ex_orders
       ELSE /\ loc' = [loc EXCEPT !.elapsed = loc.elapsed + 1]
            /\ pc' = IF loc.elapsed + 1 < worker.strategy_settings.order_timeout_sec
                     THEN "order_wait" ELSE "order_cancel"
            /\ UNCHANGED <<worker, active_order, ex_orders>>
    /\ last_step' = "other"
    /\ UNCHANGED <<ex_amt, ex_cost>> /\ TaskFrame /\ NoClose

\* the order watchdog: cancel_open_order, then "not filled"
OrderWatchdog ==
    /\ pc = "order_cancel"
    /\ ex_orders' = cancel_order(ex_orders, active_order)
    /\ active_order' = NoOrder
    /\ worker' = after_order(order_finally(worker), loc.kind, loc.usdt)
    /\ pc' = pc_after_order(loc.kind)
    /\ loc' = IdleLoc
    /\ last_step' = "other"
    /\ UNCHANGED <<ex_amt, ex_cost>> /\ TaskFrame /\ NoClose

dca_should_place(w, p) ==
    LET step == w.strategy_settings.safety_step_pct
        avg  == w.average_price
    IN  IF w.direction = "LONG" THEN p * avg.d * 100 <= avg.n * (100 - step)
                                ELSE p * avg.d * 100 >= avg.n * (100 + step)

ProcessDca ==
    /\ pc = "dca"
    /\ LET p == prices[MainSymbol] IN
       IF \/ ~worker.position_open \/ worker.safety_order_in_progress \/ worker.order_in_progress
          \/ worker.safety_orders_used >= worker.strategy_settings.safety_orders_count
          \/ p = NoPrice \/ worker.average_price.n <= 0
          \/ ~dca_should_place(worker, p)
       THEN /\ pc' = "be" /\ last_step' = "other"
            /\ UNCHANGED <<worker, loc>> /\ ExchangeFrame
       ELSE \E mark \in Prices, accepted \in BOOLEAN :
              open_order_with_usdt([worker EXCEPT !.safety_order_in_progress = TRUE],
                                   worker.last_order_usdt * worker.strategy_settings.volume_multiplier,
                                   "safety", mark, accepted)
    /\ TaskFrame /\ NoClose

\* sign of the pnl _close_position reports: (gross - exit commission) - total_cost,
\* scaled by the average price's denominator
close_pnl(w, qty, exit_price) ==
    LET avg == w.average_price
        exit_commission == (w.strategy_settings.commission_pct * qty * exit_price) \div 100
        gross_d == IF w.direction = "LONG" THEN exit_price * qty * avg.d
                   ELSE (2 * avg.n - exit_price * avg.d) * qty
        pnl_d == gross_d - (exit_commission + w.total_cost) * avg.d
    IN  IF pnl_d < 0 THEN 0 - 1 ELSE IF pnl_d > 0 THEN 1 ELSE 0

\* _close_position once the exchange (or the paper book) gave a close result
close_position_done(w, t, exit_price) ==
    LET w1 == reset_position_state([on_trade_closed(w) EXCEPT
                                             !.last_close_timestamp = t,
                                             !.last_close_price = exit_price])
    IN  IF w1.pending_strategy_settings # NoSettings
        THEN [w1 EXCEPT !.strategy_settings = w1.pending_strategy_settings,
                        !.pending_strategy_settings = NoSettings]
        ELSE w1

\* _close_position up to its first await (Live) or to its end (Paper)
close_position(reason, next_pc) ==
    LET p == prices[MainSymbol] IN
    IF worker.strategy_settings.run_mode = "Paper"
    THEN /\ pc' = next_pc
         /\ UNCHANGED loc
         /\ last_step' = "other"
         /\ IF p = NoPrice
            THEN UNCHANGED worker /\ NoClose
            ELSE /\ worker' = close_position_done(worker, now, p)
                 /\ closed_at' = now
                 /\ closed_price' = p
    ELSE /\ pc' = "closing"
         /\ loc' = [IdleLoc EXCEPT !.reason = reason]
         /\ last_step' = "other"
         /\ UNCHANGED worker /\ NoClose

\* the profit test with the LONG formula for both directions
be_profit_reached_long(w, p) ==
    LET avg == w.average_price
        pct == w.strategy_settings.break_even_after_percent
    IN  (p * avg.d - avg.n) * 100 >= pct * avg.n

be_profit_reached(w, p) ==
    LET avg == w.average_price
        pct == w.strategy_settings.break_even_after_percent
    IN  IF w.direction = "LONG" THEN (p * avg.d - avg.n) * 100 >= pct * avg.n
                                ELSE (avg.n - p * avg.d) * 100 >= pct * avg.n

CheckBreakEven ==
    /\ pc = "be"
    /\ LET p == prices[MainSymbol] IN
       IF ~is_futures_mode(worker) \/ ~worker.position_open \/ p = NoPrice
       THEN /\ pc' = "tp" /\ last_step' = "other" /\ UNCHANGED <<worker, loc>> /\ NoClose
       ELSE IF ~worker.break_even_armed
       THEN IF worker.average_price.n = 0
            THEN \* ZeroDivisionError: the iteration is abandoned
                 /\ pc' = "sleep" /\ last_step' = "other" /\ UNCHANGED <<worker, loc>> /\ NoClose
            ELSE /\ worker' = IF be_profit_reached(worker, p)
                              THEN [worker EXCEPT !.break_even_armed = TRUE,
                                                  !.break_even_price = worker.average_price]
                              ELSE worker
                 /\ pc' = "tp" /\ last_step' = "other" /\ UNCHANGED loc /\ NoClose
       ELSE IF \/ worker.direction = "LONG" /\ RatLeq(RatOfInt(p), worker.break_even_price)
               \/ worker.direction = "SHORT" /\ RatLeq(worker.break_even_price, RatOfInt(p))
       THEN close_position("BREAK_EVEN", "tp")
       ELSE /\ pc' = "tp" /\ last_step' = "other" /\ UNCHANGED <<worker, loc>> /\ NoClose
    /\ ExchangeFrame /\ TaskFrame

CheckTakeProfit ==
    /\ pc = "tp"
    /\ LET p == prices[MainSymbol]
           tp == worker.take_profit_price IN
       IF ~worker.position_open \/ RatIsNone(tp) \/ p = NoPrice
       THEN /\ pc' = "sync" /\ last_step' = "other" /\ UNCHANGED <<worker, loc>> /\ NoClose
       ELSE IF \/ worker.direction = "LONG" /\ RatLeq(tp, RatOfInt(p))
               \/ worker.direction = "SHORT" /\ RatLeq(RatOfInt(p), tp)
       THEN close_position("TP", "sync")
       ELSE /\ pc' = "sync" /\ last_step' = "other" /\ UNCHANGED <<worker, loc>> /\ NoClose
    /\ ExchangeFrame /\ TaskFrame

\* the Live close: cancel_protection_orders and close_position_futures, or
\* close_position_spot, then the rest of _close_position
CloseDone ==
    /\ pc = "closing"
    /\ \E mark \in Prices :
         LET p == prices[MainSymbol]
             exit_price == IF p = NoPrice THEN mark ELSE p
             futures == is_futures_mode(worker)
             qty == IF futures THEN (IF ex_amt < 0 THEN 0 - ex_amt ELSE ex_amt)
                    ELSE worker.total_qty
             ok == IF futures THEN ex_amt # 0 ELSE qty > 0 /\ qty <= ex_amt
         IN  /\ ex_orders' = IF futures THEN cancel_open_orders(ex_orders)
                                               ELSE ex_orders
             /\ IF ok
                THEN /\ ex_amt' = IF futures THEN 0 ELSE ex_amt - qty
                     /\ ex_cost' = 0
                     /\ worker' = close_position_done(worker, now, exit_price)
                     /\ closed_at' = now
                     /\ closed_price' = exit_price
                ELSE UNCHANGED <<ex_amt, ex_cost, worker>> /\ NoClose
    /\ last_step' = "other"
    /\ pc' = IF loc.reason = "BREAK_EVEN" THEN "tp" ELSE "sync"
    /\ loc' = IdleLoc
    /\ UNCHANGED active_order /\ TaskFrame

\* the adoption branch of _periodic_position_sync
sync_adopt(w, real_qty, entry) ==
    recalculate_tp([w EXCEPT !.total_qty = real_qty, !.average_price = entry,
                             !.total_cost = (entry.n * real_qty) \div entry.d])

\* get_position as the exchange answers it: spot has no position
real_position_qty(w) ==
    IF is_futures_mode(w) THEN (IF ex_amt < 0 THEN 0 - ex_amt ELSE ex_amt) ELSE 0

PeriodicPositionSync ==
    /\ pc = "sync"
    /\ IF now - worker.last_position_sync < SyncPeriod
       THEN UNCHANGED worker
       ELSE LET w1 == [worker EXCEPT !.last_position_sync = now]
                real_qty == real_position_qty(worker)
            IN  worker' =
                  IF w1.position_open /\ real_qty = 0
                  THEN reset_position_state(w1)
                  ELSE IF w1.position_open /\ is_futures_mode(w1) /\ real_qty # w1.total_qty
                  THEN sync_adopt(w1, real_qty, IF ex_cost = 0 THEN w1.average_price
                                                ELSE Rat(ex_cost, real_qty))
                  ELSE w1
    /\ pc' = "sleep"
    /\ last_step' = IF now - worker.last_position_sync < SyncPeriod
                    THEN "other" ELSE "get_position"     \* exchange.get_position was called
    /\ UNCHANGED loc /\ ExchangeFrame /\ TaskFrame /\ NoClose

\* asyncio.sleep(1.0) returns; "while self.running"
LoopWake ==
    /\ pc = "sleep"
    /\ pc' = IF worker.running THEN "candle" ELSE "none"
    /\ last_step' = "other"
    /\ UNCHANGED <<worker, loc>> /\ ExchangeFrame /\ TaskFrame /\ NoClose

\* ---- what runs while the task is suspended: feed, clock, exchange, operator
EnvFrame == UNCHANGED <<riskVars, mgrVars, auxVars>>

\* a miniTicker frame for the worker's symbol
PriceTick ==
    /\ AtAwait
    /\ \E p \in Prices \ {prices[MainSymbol]} : prices' = [prices EXCEPT ![MainSymbol] = p]
    /\ last_step' = "other"
    /\ UNCHANGED <<candles, candle_versions, feed_event, worker, pc, loc, now, active_order,
                   ex_orders, ex_amt, ex_cost, pair_settings, store_config, store_runtime,
                   boot, restarts>>
    /\ EnvFrame /\ NoClose

\* a closed kline for the worker's symbol
CandleClose ==
    /\ AtAwait /\ boot = "up"
    /\ candle_versions[MainSymbol] < MaxCandles
    /\ candle_versions' = [candle_versions EXCEPT ![MainSymbol] = @ + 1]
    /\ candles' = [candles EXCEPT ![MainSymbol] = append_candle(@,
                      Candle(WellFormedKline(MainSymbol, TRUE, candle_versions[MainSymbol] % 3).k))]
    /\ last_step' = "other"
    /\ UNCHANGED <<prices, feed_event, worker, pc, loc, now, active_order,
                   ex_orders, ex_amt, ex_cost, pair_settings, store_config, store_runtime,
                   boot, restarts>>
    /\ EnvFrame /\ NoClose

\* TickSec seconds pass on the loop clock
Tick ==
    /\ AtAwait /\ boot = "up"
    /\ now < MaxTime
    /\ now' = now + TickSec
    /\ last_step' = "other"
    /\ UNCHANGED <<feedVars, worker, pc, loc, active_order, ex_orders, ex_amt, ex_cost,
                   pair_settings, store_config, store_runtime, boot, restarts>>
    /\ EnvFrame /\ NoClose

\* the exchange fills an open LIMIT order
ExchangeFill ==
    /\ AtAwait
    /\ \E id \in PendingOrders(ex_orders) :
         /\ ex_orders' = [ex_orders EXCEPT ![id].status = "FILLED"]
         /\ ex_amt' = amt_after_trade(ex_amt, ex_orders[id].side, ex_orders[id].qty)
         /\ ex_cost' = cost_after_trade(worker, ex_cost, ex_orders[id].qty, ex_orders[id].price)
         /\ worker' = position_opened(worker, loc.kind = "safety" /\ loc.order_id = id)
    /\ last_step' = "other"
    /\ UNCHANGED <<feedVars, pc, loc, now, active_order, pair_settings, store_config,
                   store_runtime, boot, restarts>>
    /\ EnvFrame /\ NoClose

\* start_pair for the worker's symbol: a new run_loop task, run up to its loop
StartWorker ==
    /\ AtAwait /\ boot = "up"
    /\ pc = "none"
    /\ worker' = [worker EXCEPT !.running = TRUE]
    /\ pc' = "candle"
    /\ last_step' = "other"
    /\ UNCHANGED <<feedVars, loc, now, active_order, ex_orders, ex_amt, ex_cost, pair_settings,
                   store_config, store_runtime, boot, restarts>>
    /\ EnvFrame /\ NoClose

\* a cancellation that runs no finally block
task_cancelled_no_finally(w, at, l) ==
    IF at = "none" THEN w ELSE [w EXCEPT !.running = FALSE]

\* CancelledError delivered at the await the task stands at: the finally
\* blocks of _open_order_with_usdt and _process_dca, then run_loop's handler
task_cancelled(w, at, l) ==
    LET w1 == IF at \in {"order_wait", "order_cancel"}
              THEN [w EXCEPT !.order_in_progress = FALSE,
                             !.safety_order_in_progress =
                                 IF l.kind = "safety" THEN FALSE ELSE w.safety_order_in_progress]
              ELSE w
    IN  IF at = "none" THEN w ELSE [w1 EXCEPT !.running = FALSE]

\* stop_pair for the worker's symbol: stop(), cancel the task, await it
stop_pair(w, at, l) == task_cancelled([w EXCEPT !.running = FALSE], at, l)

StopWorker ==
    /\ AtAwait /\ boot = "up"
    /\ worker.running \/ pc # "none"
    /\ worker' = stop_pair(worker, pc, loc)
    /\ pc' = "none"
    /\ loc' = IdleLoc
    /\ last_step' = "other"
    /\ UNCHANGED <<feedVars, now, active_order, ex_orders, ex_amt, ex_cost, pair_settings,
                   store_config, store_runtime, boot, restarts>>
    /\ EnvFrame /\ NoClose

\* emergency_stop: cancel_active_order, then stop_all_pairs
EmergencyStop ==
    /\ AtAwait /\ boot = "up"
    /\ ex_orders' = cancel_order(ex_orders, active_order)
    /\ active_order' = NoOrder
    /\ worker' = IF pc = "none" THEN worker ELSE stop_pair(worker, pc, loc)
    /\ pc' = "none"
    /\ loc' = IdleLoc
    /\ last_step' = "other"
    /\ UNCHANGED <<feedVars, now, ex_amt, ex_cost, pair_settings,
                   store_config, store_runtime, boot, restarts>>
    /\ EnvFrame /\ NoClose

\* PairWorker.close_position_now after the exchange closed the position
close_now_done(w, t, p) ==
    reset_position_state([on_trade_closed(w) EXCEPT
                                   !.last_close_timestamp = t,
                                   !.last_close_price = IF p = NoPrice THEN 0 ELSE p])

\* close_position_now: the pair's open orders are cancelled, the position is
\* read and closed at market; a trade with pnl 0 is reported
CloseNow ==
    /\ AtAwait /\ boot = "up"
    /\ ex_orders' = cancel_open_orders(ex_orders)
    /\ IF (worker.mode = "Futures" /\ ex_amt # 0) \/ (worker.mode # "Futures" /\ ex_amt > 0)
       THEN /\ ex_amt' = 0
            /\ ex_cost' = 0
            /\ worker' = close_now_done(worker, now, prices[MainSymbol])
            /\ closed_at' = now
            /\ closed_price' = IF prices[MainSymbol] = NoPrice THEN 0 ELSE prices[MainSymbol]
       ELSE UNCHANGED <<ex_amt, ex_cost, worker>> /\ NoClose
    /\ last_step' = "other"
    /\ UNCHANGED <<feedVars, pc, loc, now, active_order, pair_settings,
                   store_config, store_runtime, boot, restarts>>
    /\ EnvFrame

\* update_pair_strategy_settings, with the config save it spawns
UpdateSettings ==
    /\ AtAwait /\ boot = "up"
    /\ \E settings \in SettingsUpdates(pair_settings) :
         /\ pair_settings' = settings
         /\ worker' = update_settings([worker EXCEPT !.mode = settings.mode], settings)
         /\ store_config' = settings
    /\ last_step' = "other"
    /\ UNCHANGED <<feedVars, pc, loc, now, active_order, ex_orders, ex_amt, ex_cost,
                   store_runtime, boot, restarts>>
    /\ EnvFrame /\ NoClose

\* PairStrategyDialog.get_settings with the other choice of the Mode dropdown
ModeUpdates(st) ==
    { [st EXCEPT !.mode = m, !.enable_futures = (m = "Futures")] : m \in Modes \ {st.mode} }

\* update_pair_strategy_settings after the operator changed Mode in the dialog
UpdatePairMode ==
    /\ AtAwait /\ boot = "up"
    /\ \E settings \in ModeUpdates(pair_settings) :
         /\ pair_settings' = settings
         /\ worker' = update_settings([worker EXCEPT !.mode = settings.mode], settings)
         /\ store_config' = settings
    /\ last_step' = "other"
    /\ UNCHANGED <<feedVars, pc, loc, now, active_order, ex_orders, ex_amt, ex_cost,
                   store_runtime, boot, restarts>>
    /\ EnvFrame /\ NoClose

\* runtime["is_running"] of the _save_pair_runtime that shutdown calls: by then
\* stop_all_pairs has awaited stop_pair for every key of self.tasks, and
\* stop_pair pops the key
shutdown_is_running ==
    LET tasks_left == {} IN MainSymbol \in tasks_left

\* the operator quits and starts the program again: shutdown (stop_all_pairs,
\* then the pair's config and runtime are saved), and initialize up to the
\* resync of _restore_pair_from_state; start_pair follows only for a saved
\* is_running
Restart ==
    /\ AtAwait /\ boot = "up"
    /\ restarts < MaxRestarts
    /\ restarts' = restarts + 1
    /\ LET stopped == IF pc = "none" THEN worker ELSE stop_pair(worker, pc, loc)
           runtime == get_runtime_state(stopped, shutdown_is_running)
       IN  /\ store_config' = pair_settings
           /\ store_runtime' = runtime
           /\ worker' = apply_runtime_state(NewWorker(pair_settings), runtime)
           /\ boot' = IF pair_settings.run_mode = "Live" THEN "resync" ELSE "up"
    /\ pc' = "none"
    /\ loc' = IdleLoc
    /\ active_order' = NoOrder
    /\ prices' = [s \in FeedSymbols |-> NoPrice]
    /\ candles' = [s \in FeedSymbols |-> <<>>]
    /\ candle_versions' = [s \in FeedSymbols |-> 0]
    /\ last_step' = "other"
    /\ closed_price' = 0
    /\ UNCHANGED <<feed_event, now, ex_orders, ex_amt, ex_cost, pair_settings, closed_at>>
    /\ EnvFrame

\* resync that takes every futures position for a LONG one
resync_long_only(w, amt, cost, p) ==
    LET qty == IF amt < 0 THEN 0 - amt ELSE amt IN
    IF w.strategy_settings.run_mode # "Live" THEN w
    ELSE IF w.mode = "Futures"
    THEN IF qty > 0
         THEN recalculate_tp([w EXCEPT !.position_open = TRUE, !.total_qty = qty,
                                       !.average_price = Rat(cost, qty), !.total_cost = cost,
                                       !.direction = "LONG"])
         ELSE IF w.position_open THEN reset_position_state(w) ELSE w
    ELSE IF amt > 0
         THEN LET price == IF p = NoPrice THEN 0 ELSE p IN
              recalculate_tp([w EXCEPT !.position_open = TRUE, !.total_qty = amt,
                                       !.average_price = RatOfInt(price),
                                       !.total_cost = price * amt, !.direction = "LONG"])
         ELSE IF w.position_open THEN reset_position_state(w) ELSE w

resync_pair_with_exchange(w, amt, cost, p) ==
    LET qty == IF amt < 0 THEN 0 - amt ELSE amt IN
    IF w.strategy_settings.run_mode # "Live" THEN w
    ELSE IF w.mode = "Futures"
    THEN IF qty > 0
         THEN recalculate_tp([w EXCEPT !.position_open = TRUE, !.total_qty = qty,
                                       !.average_price = Rat(cost, qty), !.total_cost = cost,
                                       !.direction = IF amt > 0 THEN "LONG" ELSE "SHORT"])
         ELSE IF w.position_open THEN reset_position_state(w) ELSE w
    ELSE IF amt > 0
         THEN LET price == IF p = NoPrice THEN 0 ELSE p IN
              recalculate_tp([w EXCEPT !.position_open = TRUE, !.total_qty = amt,
                                       !.average_price = RatOfInt(price),
                                       !.total_cost = price * amt, !.direction = "LONG"])
         ELSE IF w.position_open THEN reset_position_state(w) ELSE w

\* initialize: resync_pair_with_exchange answers
ResyncDone ==
    /\ boot = "resync"
    /\ boot' = "up"
    /\ worker' = resync_pair_with_exchange(worker, ex_amt, ex_cost, prices[MainSymbol])
    /\ last_step' = "other"
    /\ UNCHANGED <<feedVars, pc, loc, now, active_order, ex_orders, ex_amt, ex_cost,
                   pair_settings, store_config, store_runtime, restarts>>
    /\ EnvFrame /\ NoClose

\* one call of resync_pair_with_exchange for a pair without a task, and a second
\* call after it; boot counts the calls ("resync", "again", "up"). The exchange
\* may raise (Live only: a pair that is not Live returns before the first
\* await); "finally" schedules the runtime save
ResyncPair ==
    /\ boot \in {"resync", "again"} /\ pc = "none"
    /\ boot' = IF boot = "resync" THEN "again" ELSE "up"
    /\ \E raised \in {r \in BOOLEAN : r => worker.strategy_settings.run_mode = "Live"} :
         /\ worker' = IF raised THEN worker
                       ELSE resync_pair_with_exchange(worker, ex_amt, ex_cost,
                                                      prices[MainSymbol])
         /\ last_step' = IF raised THEN "resync_error" ELSE "resync"
    /\ IF worker.strategy_settings.run_mode = "Live"
       THEN /\ state_runtime_dirty' = state_runtime_dirty \cup {MainSymbol}
            /\ state_flush_task' = IF state_flush_task \in {"none", "done"}
                                    THEN "sleeping" ELSE state_flush_task
       ELSE UNCHANGED <<state_runtime_dirty, state_flush_task>>
    /\ UNCHANGED <<riskVars, mgrVars, feedVars, connVars, storeVars, btVars, rateVars, sigVars,
                   engVars, pageVars, fleetVars, jobVars, emVars, gridVars,
                   pairs, next_worker, background, reg_op, remove_call,
                   flush_dirty, flush_saving, runtime_version, runtime_saved,
                   pc, loc, now, active_order, ex_orders, ex_amt, ex_cost, pair_settings,
                   store_config, store_runtime, restarts, closed_at, closed_price>>

WorkerInitWith(settings) ==
    /\ worker = NewWorker(settings)
    /\ pc = "none"
    /\ loc = IdleLoc
    /\ now = StartTime
    /\ active_order = NoOrder
    /\ ex_orders = [i \in OrderIds |-> NoExOrder]
    /\ ex_amt = 0
    /\ ex_cost = 0
    /\ pair_settings = settings
    /\ store_config = settings
    /\ store_runtime = get_runtime_state(NewWorker(settings), FALSE)
    /\ boot = "up"
    /\ restarts = 0
    /\ closed_at = 0
    /\ closed_price = 0
    /\ last_step = "other"

WorkerInit == \E settings \in SettingsProfiles : WorkerInitWith(settings)

(***************************************************************************)
(* WebSocketManager: subscriptions and the reconnecting listener           *)
(* (src/core/websocket_manager.py)                                         *)
(***************************************************************************)
Timeframes == {"1m", "5m"}
DefaultTimeframe == "1m"
NoTimeframe == "none"
MaxConnKlines == 1         \* closed klines the listener receives

NoMessage == [method |-> "none", params |-> {}]
ticker_stream(pair) == [pair |-> pair, stream |-> "miniTicker", tf |-> NoTimeframe]
kline_stream(pair, tf) == [pair |-> pair, stream |-> "kline", tf |-> tf]

\* pair_timeframes.get(pair, "1m")
timeframe_of(tfs, pair) == IF tfs[pair] = NoTimeframe THEN DefaultTimeframe ELSE tfs[pair]

subscribe_params_default_tf(subs, tfs) ==
    UNION { {ticker_stream(p), kline_stream(p, DefaultTimeframe)} : p \in subs }

\* the params list _sync_binance_subscriptions builds
subscribe_params(subs, tfs) ==
    UNION { {ticker_stream(p), kline_stream(p, timeframe_of(tfs, p))} : p \in subs }

\* _sync_binance_subscriptions: the last message it leaves on the socket
sync_binance_subscriptions(conn, last, subs, tfs, unsub, tf) ==
    LET params == subscribe_params(subs, tfs) IN
    IF conn # "open" THEN last          \* no connection, or send raises and is logged
    ELSE IF params # {} THEN [method |-> "SUBSCRIBE", params |-> params]
    ELSE IF unsub # NoSymbol
         THEN [method |-> "UNSUBSCRIBE",
               params |-> {ticker_stream(unsub), kline_stream(unsub, tf)}]
    ELSE last

ConnInit ==
    /\ ws_running = TRUE
    /\ listen_pc = "none"
    /\ connection = "none"
    /\ subscribed_pairs = {}
    /\ pair_timeframes = [s \in FeedSymbols |-> NoTimeframe]
    /\ wire = NoMessage
    /\ ws_step = "none"
    /\ offline = [sub |-> {}, unsub |-> {}, reconnect |-> FALSE]

ConnFrame == UNCHANGED <<riskVars, mgrVars, wrkVars, storeVars, regVars, btVars, rateVars, sigVars, extVars>>

\* subscribe(pair, timeframe): connect() creates the listener task if none runs
Subscribe ==
    \E pair \in FeedSymbols, tf \in Timeframes :
      /\ subscribed_pairs' = subscribed_pairs \cup {pair}
      /\ pair_timeframes' = [pair_timeframes EXCEPT ![pair] = tf]
      /\ listen_pc' = IF listen_pc \in {"none", "done"}
                      THEN (IF ws_running THEN "connecting" ELSE "done")
                      ELSE listen_pc
      /\ wire' = sync_binance_subscriptions(connection, wire, subscribed_pairs',
                                            pair_timeframes', NoSymbol, DefaultTimeframe)
      /\ offline' = IF connection = "open" THEN offline
                    ELSE [offline EXCEPT !.sub = @ \cup {pair}, !.unsub = @ \ {pair}]
      /\ ws_step' = "other"
      /\ UNCHANGED <<ws_running, connection, feedVars>> /\ ConnFrame

Unsubscribe ==
    \E pair \in FeedSymbols :
      LET tf == timeframe_of(pair_timeframes, pair) IN
      /\ subscribed_pairs' = subscribed_pairs \ {pair}
      /\ pair_timeframes' = IF pair \in subscribed_pairs
                            THEN [pair_timeframes EXCEPT ![pair] = NoTimeframe]
                            ELSE pair_timeframes
      /\ wire' = sync_binance_subscriptions(connection, wire, subscribed_pairs',
                                            pair_timeframes', pair, tf)
      /\ offline' = IF connection = "open" \/ pair \notin subscribed_pairs THEN offline
                    ELSE [offline EXCEPT !.unsub = @ \cup {pair}, !.sub = @ \ {pair}]
      /\ ws_step' = "other"
      /\ UNCHANGED <<ws_running, connection, listen_pc, feedVars>> /\ ConnFrame

\* what ws.recv() returns: a JSON object (a ticker, a kline, or anything else
\* such as a subscription reply), or text that json.loads or payload.get reject
FeedMessages ==
    { [raw |-> "object", payload |-> p] :
        p \in { t \in TickerPayloads :
                  \/ t.s = MainSymbol
                  \/ t.s = NoSymbol /\ t.c \in TickerValues }
              \cup (IF candle_versions[MainSymbol] < MaxConnKlines
                    THEN KlinePayloads(MainSymbol) ELSE {})
              \cup { [e |-> "result"] } }
    \cup { [raw |-> r, payload |-> [e |-> "none"]] : r \in {"not_json", "not_object"} }

\* json.loads(raw_message) or payload.get("e") raises
decode_raises(m) == m.raw # "object"

\* _handle_miniticker
handle_miniticker(pr, p) ==
    IF p.s # NoSymbol /\ p.c # MissingField /\ is_number(p.c)
    THEN [pr EXCEPT ![p.s] = p.c] ELSE pr

\* _handle_kline
handle_kline_candles(cs, p) ==
    IF kline_accepted(p) THEN [cs EXCEPT ![p.s] = append_candle(@, Candle(p.k))] ELSE cs
handle_kline_versions(vs, p) ==
    IF kline_accepted(p) THEN [vs EXCEPT ![p.s] = @ + 1] ELSE vs

\* websockets.connect succeeded: the socket is recorded and the subscriptions synced
ConnectOk ==
    /\ listen_pc = "connecting"
    /\ connection' = "open"
    /\ wire' = sync_binance_subscriptions("open", NoMessage, subscribed_pairs,
                                          pair_timeframes, NoSymbol, DefaultTimeframe)
    /\ listen_pc' = "recv"
    /\ ws_step' = "connected"
    /\ UNCHANGED <<ws_running, subscribed_pairs, pair_timeframes, offline, feedVars>>
    /\ ConnFrame

\* websockets.connect raised
ConnectFail ==
    /\ listen_pc = "connecting"
    /\ listen_pc' = "backoff"
    /\ ws_step' = "error"
    /\ UNCHANGED <<ws_running, connection, subscribed_pairs, pair_timeframes, wire,
                   offline, feedVars>>
    /\ ConnFrame

\* what the except branch of _listen_binance leaves: the socket closed by
\* "async with", its entry still in connections during the 3 second sleep
listener_failed(step) ==
    /\ listen_pc' = "backoff"
    /\ connection' = "closed"
    /\ offline' = [sub |-> {}, unsub |-> {}, reconnect |-> TRUE]
    /\ ws_step' = step

\* one message arrives and is dispatched
Recv ==
    /\ listen_pc = "recv"
    /\ \E m \in FeedMessages :
         /\ feed_event' = m.payload
         /\ IF decode_raises(m)
            THEN /\ listener_failed("decode_error")
                 /\ UNCHANGED <<prices, candles, candle_versions>>
            ELSE /\ prices' = IF m.payload.e = "miniTicker"
                              THEN handle_miniticker(prices, m.payload) ELSE prices
                 /\ candles' = IF m.payload.e = "kline"
                               THEN handle_kline_candles(candles, m.payload) ELSE candles
                 /\ candle_versions' = IF m.payload.e = "kline"
                                       THEN handle_kline_versions(candle_versions, m.payload)
                                       ELSE candle_versions
                 /\ ws_step' = "received"
                 /\ UNCHANGED <<listen_pc, connection, offline>>
    /\ UNCHANGED <<ws_running, subscribed_pairs, pair_timeframes, wire>>
    /\ ConnFrame

\* ws.recv() raises: the peer closed the socket (EOF) or the network failed
ConnLost ==
    /\ listen_pc = "recv"
    /\ listener_failed("error")
    /\ UNCHANGED <<ws_running, subscribed_pairs, pair_timeframes, wire, feedVars>>
    /\ ConnFrame

\* asyncio.sleep(3) returns; finally pops the connection; "while self._running"
BackoffDone ==
    /\ listen_pc = "backoff"
    /\ connection' = "none"
    /\ listen_pc' = IF ws_running THEN "connecting" ELSE "done"
    /\ ws_step' = "other"
    /\ UNCHANGED <<ws_running, subscribed_pairs, pair_timeframes, wire, offline, feedVars>>
    /\ ConnFrame

\* shutdown(): the listener is cancelled at its await, sockets are closed
WsShutdown ==
    /\ ws_running
    /\ ws_running' = FALSE
    /\ listen_pc' = "none"
    /\ connection' = "none"
    /\ ws_step' = "other"
    /\ UNCHANGED <<subscribed_pairs, pair_timeframes, wire, offline, feedVars>>
    /\ ConnFrame

(***************************************************************************)
(* StateStore: the pairs_state table (src/core/state_store.py)             *)
(*                                                                         *)
(* A JSON object is a set of key/value entries; its text, as json.dumps    *)
(* writes it, is a set of key/token entries.                               *)
(***************************************************************************)
StoreIds == FeedSymbols
JsonKey == "v"
IntValue(n)   == [t |-> "int",   n |-> n, s |-> "", b |-> FALSE]
FloatValue(n) == [t |-> "float", n |-> n, s |-> "", b |-> FALSE]     \* n.0
StrValue(x)   == [t |-> "str",   n |-> 0, s |-> x,  b |-> FALSE]
BoolValue(x)  == [t |-> "bool",  n |-> 0, s |-> "", b |-> x]
\* the values a config or runtime dict holds: int, float, str and bool fields
JsonValues == {IntValue(1), FloatValue(1), FloatValue(0), StrValue("Spot"), BoolValue(TRUE)}
EmptyObject == {}
JsonObjects == {EmptyObject} \cup { {[key |-> JsonKey, val |-> v]} : v \in JsonValues }

\* json.dumps of one value: a number literal with or without a fraction, a
\* quoted string, or true / false
json_token(v) ==
    CASE v.t = "int"   -> [kind |-> "number", lit |-> v.n, frac |-> FALSE, text |-> ""]
      [] v.t = "float" -> [kind |-> "number", lit |-> v.n, frac |-> TRUE, text |-> ""]
      [] v.t = "str"   -> [kind |-> "string", lit |-> 0, frac |-> FALSE, text |-> v.s]
      [] v.t = "bool"  -> [kind |-> IF v.b THEN "true" ELSE "false",
                           lit |-> 0, frac |-> FALSE, text |-> ""]
json_dumps(obj) == { [key |-> e.key, tok |-> json_token(e.val)] : e \in obj }

json_value_ints(tok) ==
    CASE tok.kind = "number" -> IntValue(tok.lit)
      [] tok.kind = "string" -> StrValue(tok.text)
      [] OTHER -> BoolValue(tok.kind = "true")

\* json.loads of one token
json_value(tok) ==
    CASE tok.kind = "number" -> IF tok.frac THEN FloatValue(tok.lit) ELSE IntValue(tok.lit)
      [] tok.kind = "string" -> StrValue(tok.text)
      [] OTHER -> BoolValue(tok.kind = "true")
json_loads(text) == { [key |-> e.key, val |-> json_value(e.tok)] : e \in text }

EmptyObjectText == {}              \* the SQL literal '{}'
NoRow == [present |-> FALSE, config_json |-> EmptyObjectText, runtime_json |-> EmptyObjectText]
NoCall == [op |-> "none", id |-> NoSymbol, data |-> EmptyObject]
NothingSaved == [has_config |-> FALSE, config |-> EmptyObject,
                 has_runtime |-> FALSE, runtime |-> EmptyObject]

StoreInit ==
    /\ db = [id \in StoreIds |-> NoRow]
    /\ st_op = NoCall
    /\ loaded = <<>>
    /\ saved = [id \in StoreIds |-> NothingSaved]

save_pair_config_replace(d, id, data) ==
    [d EXCEPT ![id] = [present |-> TRUE, config_json |-> json_dumps(data),
                       runtime_json |-> EmptyObjectText]]

\* INSERT ... VALUES(id, config, COALESCE(existing runtime_json, '{}'))
\* ON CONFLICT(pair_id) DO UPDATE SET config_json = excluded.config_json
save_pair_config(d, id, data) ==
    [d EXCEPT ![id] = IF d[id].present
                      THEN [@ EXCEPT !.config_json = json_dumps(data)]
                      ELSE [present |-> TRUE, config_json |-> json_dumps(data),
                            runtime_json |-> EmptyObjectText]]

save_pair_runtime(d, id, data) ==
    [d EXCEPT ![id] = IF d[id].present
                      THEN [@ EXCEPT !.runtime_json = json_dumps(data)]
                      ELSE [present |-> TRUE, config_json |-> EmptyObjectText,
                            runtime_json |-> json_dumps(data)]]

delete_pair(d, id) == [d EXCEPT ![id] = NoRow]

\* SELECT pair_id, config_json, runtime_json FROM pairs_state, decoded row by row
load_all_pairs(d) ==
    LET all == [i \in 1..Len(PairOrder) |->
                  [pair_id |-> PairOrder[i],
                   config |-> json_loads(d[PairOrder[i]].config_json),
                   runtime |-> json_loads(d[PairOrder[i]].runtime_json)]]
        present(rec) == d[rec.pair_id].present
    IN  SelectSeq(all, present)

StoreFrame == UNCHANGED <<riskVars, feedVars, mgrVars, wrkVars, connVars, regVars, btVars, rateVars, sigVars, extVars>>

SavePairConfig ==
    \E id \in StoreIds, data \in JsonObjects :
      /\ db' = save_pair_config(db, id, data)
      /\ st_op' = [op |-> "save_pair_config", id |-> id, data |-> data]
      /\ saved' = [saved EXCEPT ![id].has_config = TRUE, ![id].config = data]
      /\ loaded' = <<>>
      /\ StoreFrame

SavePairRuntime ==
    \E id \in StoreIds, data \in JsonObjects :
      /\ db' = save_pair_runtime(db, id, data)
      /\ st_op' = [op |-> "save_pair_runtime", id |-> id, data |-> data]
      /\ saved' = [saved EXCEPT ![id].has_runtime = TRUE, ![id].runtime = data]
      /\ loaded' = <<>>
      /\ StoreFrame

DeletePair ==
    \E id \in StoreIds :
      /\ db' = delete_pair(db, id)
      /\ st_op' = [op |-> "delete_pair", id |-> id, data |-> EmptyObject]
      /\ saved' = [saved EXCEPT ![id] = NothingSaved]
      /\ loaded' = <<>>
      /\ StoreFrame

LoadAllPairs ==
    /\ loaded' = load_all_pairs(db)
    /\ st_op' = [op |-> "load_all_pairs", id |-> NoSymbol, data |-> EmptyObject]
    /\ UNCHANGED <<db, saved>>
    /\ StoreFrame

(***************************************************************************)
(* BotManager: the pair registry, its actions                              *)
(***************************************************************************)
RegFrame == UNCHANGED <<riskVars, feedVars, mgrVars, wrkVars, btVars, rateVars, sigVars, extVars>>

AddPair ==
    \E name \in PairNames, mode \in Modes, exchange_name \in ExchangeNames,
       run_mode \in StartRunModes :
      LET r == add_pair(Registry, name, mode, exchange_name, run_mode) IN
      /\ r.next_worker <= MaxWorkers
      /\ pairs' = r.pairs
      /\ next_worker' = r.next_worker
      /\ background' = r.background
      /\ state_runtime_dirty' = r.dirty
      /\ reg_op' = [op |-> "add_pair", sym |-> upper(name), returned |-> r.returned]
      /\ UNCHANGED <<remove_call, connVars, storeVars, btVars, rateVars, sigVars, extVars>> /\ RegFrame

\* remove_pair of a pair that has no task, up to the suspension in
\* asyncio.to_thread(delete_pair): stop_pair, del pairs[...], unsubscribe
RemovePair ==
    \E sym \in FeedSymbols :
      LET tf == timeframe_of(pair_timeframes, sym)
          binance == pairs[sym].present /\ pairs[sym].exchange_name = "Binance" IN
      /\ tasks[sym] = NoTask
      /\ state_runtime_dirty' = state_runtime_dirty \cup {sym}
      /\ pairs' = [pairs EXCEPT ![sym] = NoWorker]
      /\ remove_call' = IF pairs[sym].present THEN remove_call \cup {sym} ELSE remove_call
      /\ reg_op' = [op |-> "remove_pair", sym |-> sym, returned |-> 0]
      /\ IF binance
         THEN /\ subscribed_pairs' = subscribed_pairs \ {sym}
              /\ pair_timeframes' = IF sym \in subscribed_pairs
                                    THEN [pair_timeframes EXCEPT ![sym] = NoTimeframe]
                                    ELSE pair_timeframes
              /\ wire' = sync_binance_subscriptions(connection, wire, subscribed_pairs',
                                                    pair_timeframes', sym, tf)
              /\ offline' = IF connection = "open" \/ sym \notin subscribed_pairs THEN offline
                            ELSE [offline EXCEPT !.unsub = @ \cup {sym}, !.sub = @ \ {sym}]
              /\ ws_step' = "other"
         ELSE UNCHANGED <<subscribed_pairs, pair_timeframes, wire, offline, ws_step>>
      /\ UNCHANGED <<next_worker, background, ws_running, connection, listen_pc, storeVars>>
      /\ RegFrame

\* remove_pair resumes in the worker thread: delete_pair
RemovePairDelete ==
    \E sym \in remove_call :
      /\ remove_call' = remove_call \ {sym}
      /\ db' = delete_pair(db, sym)
      /\ st_op' = [op |-> "delete_pair", id |-> sym, data |-> EmptyObject]
      /\ saved' = [saved EXCEPT ![sym] = NothingSaved]
      /\ loaded' = <<>>
      /\ reg_op' = [op |-> "remove_pair", sym |-> sym, returned |-> 0]
      /\ UNCHANGED <<pairs, next_worker, background, state_runtime_dirty, connVars>>
      /\ RegFrame

\* the config dict of _save_pair_config, reduced to its mode entry
pair_config(w) == {[key |-> JsonKey, val |-> StrValue(w.mode)]}

\* a coroutine spawned by add_pair runs: websocket_manager.subscribe or
\* _save_pair_config
RunBackground ==
    \E c \in background :
      /\ background' = background \ {c}
      /\ IF c.co = "subscribe"
         THEN /\ subscribed_pairs' = subscribed_pairs \cup {c.sym}
              /\ pair_timeframes' = [pair_timeframes EXCEPT ![c.sym] = DefaultTimeframe]
              /\ listen_pc' = IF listen_pc \in {"none", "done"}
                              THEN (IF ws_running THEN "connecting" ELSE "done")
                              ELSE listen_pc
              /\ wire' = sync_binance_subscriptions(connection, wire, subscribed_pairs',
                                                    pair_timeframes', NoSymbol, DefaultTimeframe)
              /\ offline' = IF connection = "open" THEN offline
                            ELSE [offline EXCEPT !.sub = @ \cup {c.sym}, !.unsub = @ \ {c.sym}]
              /\ ws_step' = "other"
              /\ UNCHANGED storeVars
         ELSE /\ IF pairs[c.sym].present
                 THEN /\ db' = save_pair_config(db, c.sym, pair_config(pairs[c.sym]))
                      /\ st_op' = [op |-> "save_pair_config", id |-> c.sym,
                                   data |-> pair_config(pairs[c.sym])]
                      /\ saved' = [saved EXCEPT ![c.sym].has_config = TRUE,
                                                ![c.sym].config = pair_config(pairs[c.sym])]
                      /\ loaded' = <<>>
                 ELSE UNCHANGED storeVars
              /\ UNCHANGED <<subscribed_pairs, pair_timeframes, listen_pc, wire, offline, ws_step>>
      /\ reg_op' = [op |-> c.co, sym |-> c.sym, returned |-> 0]
      /\ UNCHANGED <<pairs, next_worker, state_runtime_dirty, remove_call,
                     ws_running, connection>>
      /\ RegFrame

\* the runtime dict of _save_pair_runtime, reduced to its is_running entry
pair_runtime(sym) ==
    {[key |-> JsonKey, val |-> BoolValue(tasks[sym] # NoTask /\ TaskAlive(tasks[sym]))]}

RECURSIVE flush_runtime(_, _)
flush_runtime(d, keys) ==
    IF keys = <<>> THEN d
    ELSE flush_runtime(IF pairs[Head(keys)].present
                       THEN save_pair_runtime(d, Head(keys), pair_runtime(Head(keys)))
                       ELSE d,
                       Tail(keys))

\* _flush_runtime_state_debounced after its sleep: one save per dirty symbol
FlushRuntimeState ==
    /\ state_runtime_dirty # {}
    /\ state_runtime_dirty' = {}
    /\ LET keys == SelectSeq(PairOrder, LAMBDA s : s \in state_runtime_dirty) IN
         /\ db' = flush_runtime(db, keys)
         /\ saved' = [s \in StoreIds |->
                        IF s \in state_runtime_dirty /\ pairs[s].present
                        THEN [saved[s] EXCEPT !.has_runtime = TRUE, !.runtime = pair_runtime(s)]
                        ELSE saved[s]]
    /\ st_op' = [op |-> "save_pair_runtime", id |-> NoSymbol, data |-> EmptyObject]
    /\ loaded' = <<>>
    /\ reg_op' = [op |-> "flush_runtime_state", sym |-> NoSymbol, returned |-> 0]
    /\ UNCHANGED <<pairs, next_worker, background, remove_call, connVars>>
    /\ RegFrame

(***************************************************************************)
(* BacktestEngine.run_backtest, bar by bar, beside one run_loop iteration  *)
(* per bar of a Paper worker (src/core/backtest_engine.py)                 *)
(***************************************************************************)
MaxBars == 3
BarSec == 60                       \* one bar of the default "1m" timeframe
BacktestProfiles ==
    { [DefaultSettings EXCEPT !.run_mode = "Paper"],
      [DefaultSettings EXCEPT !.run_mode = "Paper", !.mode = "Futures", !.enable_futures = TRUE] }

NoBtPosition ==
    [ open |-> FALSE, direction |-> "NONE", total_qty |-> 0, total_cost |-> 0,
      average_price |-> ZeroRat, last_order_usdt |-> 0, safety_orders_used |-> 0,
      break_even_armed |-> FALSE ]
NoBarEvent ==
    [ opened |-> FALSE, direction |-> "NONE", qty |-> 0, cost |-> 0, safety |-> FALSE,
      armed |-> FALSE, closed |-> FALSE, pnl |-> 0 ]
Sign(x) == IF x < 0 THEN 0 - 1 ELSE IF x > 0 THEN 1 ELSE 0

BtInit ==
    /\ bt_settings = NoSettings
    /\ bt_bar = 0
    /\ bt_position = NoBtPosition
    /\ bt_worker = NewWorker(NoSettings)
    /\ bt_event = NoBarEvent
    /\ wk_event = NoBarEvent

\* BacktestEngine.simulate_trade
simulate_trade(direction, usdt_amount, price) ==
    LET qty == usdt_amount \div price IN
    [ open |-> TRUE, direction |-> direction, total_qty |-> qty, total_cost |-> qty * price,
      average_price |-> RatOfInt(price), last_order_usdt |-> usdt_amount,
      safety_orders_used |-> 0, break_even_armed |-> FALSE ]

\* sign of BacktestEngine._close_position, scaled by the average's denominator
bt_close_position(pos, exit_price, commission_pct) ==
    LET avg == pos.average_price
        qty == pos.total_qty
        commission == (commission_pct * qty * exit_price) \div 100
        gross_d == IF pos.direction = "LONG" THEN qty * exit_price * avg.d
                   ELSE qty * (2 * avg.n - exit_price * avg.d)
    IN  Sign(gross_d - (commission + pos.total_cost) * avg.d)

\* the body of run_backtest's loop for one bar with close price and signal
backtest_bar(pos, st, price, signal) ==
    IF ~pos.open /\ signal # "NONE"
    THEN LET opened == simulate_trade(IF st.enable_futures
                                      THEN (IF st.futures_position_side = "Short"
                                            THEN "SHORT" ELSE "LONG")
                                      ELSE signal,
                                      st.base_order_size_usdt, price)
         IN  [pos |-> opened, closing |-> NoBtPosition,
              event |-> [NoBarEvent EXCEPT !.opened = TRUE, !.direction = opened.direction,
                                           !.qty = opened.total_qty, !.cost = opened.total_cost]]
    ELSE IF ~pos.open
    THEN [pos |-> pos, closing |-> NoBtPosition, event |-> NoBarEvent]
    ELSE
    LET avg == pos.average_price
        trigger == IF pos.direction = "LONG"
                   THEN price * avg.d * 100 <= avg.n * (100 - st.safety_step_pct)
                   ELSE price * avg.d * 100 >= avg.n * (100 + st.safety_step_pct)
        dca == trigger /\ pos.safety_orders_used < st.safety_orders_count
        next_usdt == pos.last_order_usdt * st.volume_multiplier
        added == simulate_trade(pos.direction, next_usdt, price)
        p1 == IF dca
              THEN [pos EXCEPT !.total_qty = pos.total_qty + added.total_qty,
                               !.total_cost = pos.total_cost + added.total_cost,
                               !.average_price = Rat(pos.total_cost + added.total_cost,
                                                     pos.total_qty + added.total_qty),
                               !.last_order_usdt = next_usdt,
                               !.safety_orders_used = pos.safety_orders_used + 1]
              ELSE pos
        avg1 == p1.average_price
        gain_reached == IF p1.direction = "LONG"
                        THEN (price * avg1.d - avg1.n) * 100 >= st.break_even_after_percent * avg1.n
                        ELSE (avg1.n - price * avg1.d) * 100 >= st.break_even_after_percent * avg1.n
        arm == st.enable_futures /\ ~p1.break_even_armed /\ gain_reached
        p2 == IF arm THEN [p1 EXCEPT !.break_even_armed = TRUE] ELSE p1
        be_hit == /\ st.enable_futures /\ p2.break_even_armed
                  /\ \/ p2.direction = "LONG" /\ RatLeq(RatOfInt(price), avg1)
                     \/ p2.direction = "SHORT" /\ RatLeq(avg1, RatOfInt(price))
        f == IF p2.direction = "LONG" THEN 100 + st.take_profit_pct ELSE 100 - st.take_profit_pct
        tp == Rat(avg1.n * f, avg1.d * 100)
        hit_tp == IF p2.direction = "LONG" THEN RatLeq(tp, RatOfInt(price))
                                           ELSE RatLeq(RatOfInt(price), tp)
        closed == be_hit \/ hit_tp
    IN  [pos |-> IF closed THEN NoBtPosition ELSE p2,
         closing |-> IF closed THEN p2 ELSE NoBtPosition,
         event |-> [NoBarEvent EXCEPT
                      !.safety = dca,
                      !.qty = IF dca THEN p1.total_qty ELSE 0,
                      !.cost = IF dca THEN p1.total_cost ELSE 0,
                      !.armed = arm,
                      !.closed = closed,
                      !.pnl = IF closed THEN bt_close_position(p2, price, st.commission_pct) ELSE 0]]

\* ---- one run_loop iteration of a Paper worker at loop time t, ticker price p
\* _open_order_with_usdt in Paper mode (the ticker price is known)
paper_open_order(w, usdt, kind, p) ==
    LET w1 == [w EXCEPT !.order_in_progress = TRUE, !.last_order_usdt = usdt] IN
    IF w.order_in_progress
    THEN [w |-> after_order(w, kind, usdt), raised |-> FALSE]
    ELSE IF fill_raises(w1, usdt \div p)
    THEN [w |-> [apply_fill_raised(w1) EXCEPT !.order_in_progress = FALSE,
                                              !.safety_order_in_progress = FALSE],
          raised |-> TRUE]
    ELSE [w |-> after_order(order_finally(apply_fill(w1, usdt \div p, p)), kind, usdt),
          raised |-> FALSE]

\* _process_closed_candle_if_needed with the bar's signal; the exchange reports
\* a balance that covers the order
paper_process_closed_candle(w, t, p, signal) ==
    IF /\ signal = "LONG" /\ ~w.position_open /\ ~w.order_in_progress
       /\ ~is_entry_blocked(w, t, p)
    THEN paper_open_order([w EXCEPT !.direction =
                              IF is_futures_mode(w) /\ w.strategy_settings.futures_position_side = "Short"
                              THEN "SHORT" ELSE "LONG"],
                          w.strategy_settings.base_order_size_usdt, "entry", p)
    ELSE [w |-> w, raised |-> FALSE]

\* _process_dca
paper_process_dca(w, p) ==
    IF \/ ~w.position_open \/ w.safety_order_in_progress \/ w.order_in_progress
       \/ w.safety_orders_used >= w.strategy_settings.safety_orders_count
       \/ w.average_price.n <= 0
       \/ ~dca_should_place(w, p)
    THEN [w |-> w, raised |-> FALSE]
    ELSE paper_open_order([w EXCEPT !.safety_order_in_progress = TRUE],
                          w.last_order_usdt * w.strategy_settings.volume_multiplier,
                          "safety", p)

\* _check_break_even; closed tells that _close_position ran
paper_check_break_even(w, t, p) ==
    IF ~is_futures_mode(w) \/ ~w.position_open
    THEN [w |-> w, raised |-> FALSE, closed |-> FALSE]
    ELSE IF ~w.break_even_armed
    THEN IF w.average_price.n = 0
         THEN [w |-> w, raised |-> TRUE, closed |-> FALSE]
         ELSE [w |-> IF be_profit_reached(w, p)
                     THEN [w EXCEPT !.break_even_armed = TRUE,
                                    !.break_even_price = w.average_price]
                     ELSE w,
               raised |-> FALSE, closed |-> FALSE]
    ELSE IF \/ w.direction = "LONG" /\ RatLeq(RatOfInt(p), w.break_even_price)
            \/ w.direction = "SHORT" /\ RatLeq(w.break_even_price, RatOfInt(p))
    THEN [w |-> close_position_done(w, t, p), raised |-> FALSE, closed |-> TRUE]
    ELSE [w |-> w, raised |-> FALSE, closed |-> FALSE]

\* _check_take_profit
paper_check_take_profit(w, t, p) ==
    LET tp == w.take_profit_price IN
    IF ~w.position_open \/ RatIsNone(tp)
    THEN [w |-> w, closed |-> FALSE]
    ELSE IF \/ w.direction = "LONG" /\ RatLeq(tp, RatOfInt(p))
            \/ w.direction = "SHORT" /\ RatLeq(RatOfInt(p), tp)
    THEN [w |-> close_position_done(w, t, p), closed |-> TRUE]
    ELSE [w |-> w, closed |-> FALSE]

\* _periodic_position_sync; real_qty is the position the exchange account holds
paper_position_sync(w, t, real_qty) ==
    IF t - w.last_position_sync < SyncPeriod
    THEN w
    ELSE LET w1 == [w EXCEPT !.last_position_sync = t] IN
         IF w1.position_open /\ real_qty = 0
         THEN reset_position_state(w1)
         ELSE IF w1.position_open /\ is_futures_mode(w1) /\ real_qty # w1.total_qty
         THEN sync_adopt(w1, real_qty, w1.average_price)
         ELSE w1

\* the try block of run_loop: an exception abandons the rest of the iteration
worker_bar(w, t, p, signal) ==
    LET a == paper_process_closed_candle(w, t, p, signal)
        opened == ~w.position_open /\ a.w.position_open /\ ~a.raised
        b == IF a.raised THEN a ELSE paper_process_dca(a.w, p)
        safety == ~a.raised /\ b.w.safety_orders_used > a.w.safety_orders_used
        c == IF b.raised THEN [w |-> b.w, raised |-> TRUE, closed |-> FALSE]
             ELSE paper_check_break_even(b.w, t, p)
        armed == ~b.w.break_even_armed /\ c.w.break_even_armed
        d == IF c.raised THEN [w |-> c.w, closed |-> FALSE]
             ELSE paper_check_take_profit(c.w, t, p)
        closed == c.closed \/ d.closed
        before_close == IF c.closed THEN b.w ELSE c.w
        e == IF c.raised THEN d.w
             ELSE paper_position_sync(d.w, t, 0)
    IN  [w |-> e,
         event |-> [NoBarEvent EXCEPT
                      !.opened = opened,
                      !.direction = IF opened THEN a.w.direction ELSE "NONE",
                      !.safety = safety,
                      !.qty = IF safety THEN b.w.total_qty
                              ELSE IF opened THEN a.w.total_qty ELSE 0,
                      !.cost = IF safety THEN b.w.total_cost
                               ELSE IF opened THEN a.w.total_cost ELSE 0,
                      !.armed = armed,
                      !.closed = closed,
                      !.pnl = IF closed
                              THEN close_pnl(before_close, before_close.total_qty, p) ELSE 0]]

BtFrame == UNCHANGED <<riskVars, feedVars, mgrVars, wrkVars, connVars, storeVars, regVars, rateVars, sigVars, extVars>>

\* run_backtest begins (position = None) and a worker is built with the same settings
BacktestStart ==
    /\ bt_settings = NoSettings
    /\ \E st \in BacktestProfiles :
         /\ bt_settings' = st
         /\ bt_worker' = [NewWorker(st) EXCEPT !.running = TRUE]
    /\ bt_position' = NoBtPosition
    /\ UNCHANGED <<bt_bar, bt_event, wk_event>>
    /\ BtFrame

\* one bar: the engine's loop body and one worker iteration on the same close
\* price and entry signal
BarStep ==
    /\ bt_settings # NoSettings
    /\ bt_bar < MaxBars
    /\ \E price \in Prices, signal \in Signals :
         LET bt == backtest_bar(bt_position, bt_settings, price, signal)
             wk == worker_bar(bt_worker, StartTime + (bt_bar + 1) * BarSec, price, signal) IN
         /\ bt_position' = bt.pos
         /\ bt_event' = bt.event
         /\ bt_worker' = wk.w
         /\ wk_event' = wk.event
    /\ bt_bar' = bt_bar + 1
    /\ UNCHANGED bt_settings
    /\ BtFrame

(***************************************************************************)
(* BaseExchange.acquire_rate_limit (src/exchanges/base_exchange.py)        *)
(*                                                                         *)
(* Time is counted in ticks of the monotonic clock; the clock never goes   *)
(* back and may give the same reading to several calls.                    *)
(***************************************************************************)
max_requests_per_second == 2
WindowTicks == 2                   \* the 1.0 second of the sliding window
MaxClock == 4
MaxAdmissions == 5
Callers == 1..3
NoCaller == 0

RateInit ==
    /\ rl_clock = 0
    /\ request_timestamps = <<>>
    /\ request_queue = 0
    /\ rate_lock = NoCaller
    /\ rate_waiters = <<>>
    /\ rl_pc = [c \in Callers |-> "idle"]
    /\ rl_wake = [c \in Callers |-> 0]
    /\ admissions = <<>>

\* "while timestamps and now - timestamps[0] > 1.0: popleft()"
RECURSIVE drop_expired(_, _)
drop_expired(ts, t) ==
    IF ts # <<>> /\ t - Head(ts) > WindowTicks THEN drop_expired(Tail(ts), t) ELSE ts

RateFrame == UNCHANGED <<riskVars, feedVars, mgrVars, wrkVars, connVars, storeVars,
                         regVars, btVars, sigVars, extVars>>

\* leaving "async with self._rate_lock": the oldest waiter gets the lock
release_rate_lock ==
    IF rate_waiters = <<>>
    THEN /\ rate_lock' = NoCaller
         /\ UNCHANGED rate_waiters
    ELSE /\ rate_lock' = Head(rate_waiters)
         /\ rate_waiters' = Tail(rate_waiters)

\* the end of the locked block: the timestamp is appended, the queue entry
\* taken; queue is the length of _request_queue at that point
admit(c, ts, queue) ==
    /\ request_timestamps' = Append(ts, rl_clock)
    /\ admissions' = Append(admissions, rl_clock)
    /\ request_queue' = queue - 1
    /\ rl_pc' = [rl_pc EXCEPT ![c] = "idle"]
    /\ release_rate_lock
    /\ UNCHANGED rl_wake

\* the locked block for caller c, up to asyncio.sleep or to its end
rate_section(c, queue) ==
    LET t   == rl_clock
        ts  == drop_expired(request_timestamps, t)
        wait_for == IF ts = <<>> THEN 0 ELSE WindowTicks - (t - Head(ts)) IN
    IF Len(ts) >= max_requests_per_second /\ wait_for > 0
    THEN /\ request_timestamps' = ts
         /\ request_queue' = queue
         /\ rl_pc' = [rl_pc EXCEPT ![c] = "sleeping"]
         /\ rl_wake' = [rl_wake EXCEPT ![c] = t + wait_for]
         /\ rate_lock' = c
         /\ UNCHANGED <<rate_waiters, admissions>>
    ELSE admit(c, ts, queue)

\* a caller enters acquire_rate_limit: queue.put, then the lock if it is free
AcquireRateLimit ==
    /\ Len(admissions) + request_queue < MaxAdmissions
    /\ \E c \in Callers :
         /\ rl_pc[c] = "idle"
         /\ IF rate_lock = NoCaller
            THEN rate_section(c, request_queue + 1)
            ELSE /\ request_queue' = request_queue + 1
                 /\ rl_pc' = [rl_pc EXCEPT ![c] = "waiting"]
                 /\ rate_waiters' = Append(rate_waiters, c)
                 /\ UNCHANGED <<request_timestamps, rate_lock, rl_wake, admissions>>
    /\ UNCHANGED rl_clock
    /\ RateFrame

\* a waiter that was given the lock resumes and runs the locked block
LockGranted ==
    /\ \E c \in Callers :
         /\ rl_pc[c] = "waiting"
         /\ rate_lock = c
         /\ rate_section(c, request_queue)
    /\ UNCHANGED rl_clock
    /\ RateFrame

\* asyncio.sleep(wait_for) returns: expired timestamps are dropped once more
\* and the caller is admitted
SleepDone ==
    /\ \E c \in Callers :
         /\ rl_pc[c] = "sleeping"
         /\ rl_clock >= rl_wake[c]
         /\ admit(c, drop_expired(request_timestamps, rl_clock), request_queue)
    /\ UNCHANGED rl_clock
    /\ RateFrame

\* the monotonic clock advances
ClockTick ==
    /\ rl_clock < MaxClock
    /\ rl_clock' = rl_clock + 1
    /\ UNCHANGED <<request_timestamps, request_queue, rate_lock, rate_waiters, rl_pc, rl_wake,
                   admissions>>
    /\ RateFrame

(***************************************************************************)
(* ConditionEngine and BaseStrategy.generate_signal                        *)
(* (src/strategy/base_strategy.py)                                         *)
(***************************************************************************)
Filters == {"RSI", "EMA", "ADX", "Volume", "ATR"}
NoIndicator == 0 - 1               \* an indicator that could not be computed (None)
StrategyLevels == [rsi_level |-> 30, adx_threshold |-> 20, atr_min_value |-> 0]
\* the indicator readings of a non-empty data frame; close price is 2, the
\* volume spike multiplier 3/2
DataFrames ==
    [ empty : {FALSE}, rsi : {NoIndicator, 29, 30, 31}, ema : {NoIndicator, 1, 2, 3},
      close : {2}, adx : {NoIndicator, 20, 21}, volume : {1, 4}, avg_volume : {0, 2},
      atr : {NoIndicator, 0, 1} ]
EmptyFrame ==
    [ empty |-> TRUE, rsi |-> NoIndicator, ema |-> NoIndicator, close |-> 2,
      adx |-> NoIndicator, volume |-> 1, avg_volume |-> 0, atr |-> NoIndicator ]
NoToggles == [f \in Filters |-> FALSE]

SigInit ==
    /\ sig_settings = NoToggles
    /\ sig_df = EmptyFrame
    /\ sig_out = "pending"

check_rsi(df, direction) ==
    IF df.rsi = NoIndicator THEN FALSE
    ELSE IF direction = "LONG" THEN df.rsi < StrategyLevels.rsi_level
    ELSE df.rsi > StrategyLevels.rsi_level

check_ema_trend(df, direction) ==
    IF df.ema = NoIndicator THEN FALSE
    ELSE IF direction = "LONG" THEN df.close > df.ema
    ELSE df.close < df.ema

check_adx(df) == IF df.adx = NoIndicator THEN FALSE ELSE df.adx > StrategyLevels.adx_threshold

check_volume_spike(df) ==
    IF df.avg_volume <= 0 THEN FALSE ELSE 2 * df.volume > 3 * df.avg_volume

check_atr_filter(df) == IF df.atr = NoIndicator THEN FALSE ELSE df.atr > StrategyLevels.atr_min_value

\* the checks dict: "none" for a filter that is switched off
condition_checks(df, toggles, direction) ==
    LET verdict(b) == IF b THEN "pass" ELSE "fail" IN
    [f \in Filters |->
        IF ~toggles[f] THEN "none"
        ELSE CASE f = "RSI"    -> verdict(check_rsi(df, direction))
               [] f = "EMA"    -> verdict(check_ema_trend(df, direction))
               [] f = "ADX"    -> verdict(check_adx(df))
               [] f = "Volume" -> verdict(check_volume_spike(df))
               [] f = "ATR"    -> verdict(check_atr_filter(df))]

evaluate_conditions_all(df, toggles, direction) ==
    LET checks == condition_checks(df, toggles, direction)
        enabled == { f \in Filters : checks[f] # "none" }
    IN  \A f \in enabled : checks[f] = "pass"

\* ConditionEngine.evaluate_conditions: False when nothing is enabled
evaluate_conditions(df, toggles, direction) ==
    LET checks == condition_checks(df, toggles, direction)
        enabled == { f \in Filters : checks[f] # "none" }
    IN  IF enabled = {} THEN FALSE
        ELSE \A f \in enabled : checks[f] = "pass"

generate_signal(df, toggles) ==
    IF df.empty THEN "NONE"
    ELSE IF evaluate_conditions(df, toggles, "LONG") THEN "LONG"
    ELSE IF evaluate_conditions(df, toggles, "SHORT") THEN "SHORT"
    ELSE "NONE"

SigFrame == UNCHANGED <<riskVars, feedVars, mgrVars, wrkVars, connVars, storeVars, regVars,
                        btVars, rateVars, extVars>>

\* the worker hands a data frame to strategy.generate_signal
GenerateSignal ==
    /\ sig_out = "pending"
    /\ \E toggles \in [Filters -> BOOLEAN], df \in DataFrames \cup {EmptyFrame} :
         /\ sig_settings' = toggles
         /\ sig_df' = df
         /\ sig_out' = generate_signal(df, toggles)
    /\ SigFrame

\* the next closed candle: the signal is computed afresh
NextCandle ==
    /\ sig_out # "pending"
    /\ sig_out' = "pending"
    /\ sig_settings' = NoToggles
    /\ sig_df' = EmptyFrame
    /\ SigFrame

(***************************************************************************)
(* BacktestEngine: whole runs of run_backtest on one engine object         *)
(* (src/core/backtest_engine.py)                                           *)
(*                                                                         *)
(* A row of the data frame carries its close and what lines 118-127 make   *)
(* of its indicator columns: "NaN" (an indicator is missing), a signal, or *)
(* "NONE".  The indicator columns are computed on a copy of the frame.     *)
(***************************************************************************)
MaxRuns == 3
BarPrices == {2, 3, 4}
NaNRow == [close |-> 3, signal |-> "NaN"]
EntryRow == [close |-> 3, signal |-> "LONG"]
LaterRows == { [close |-> c, signal |-> "NONE"] : c \in BarPrices \ {3} }
\* the frames load_historical_data hands over: MaxBars rows, the warm-up row first
HistoricalFrames ==
    { <<EntryRow, a, b>> : a \in LaterRows, b \in LaterRows }
      \cup { <<NaNRow, EntryRow, a>> : a \in LaterRows }
NoFrame == <<>>

RECURSIVE Gcd(_, _)
Gcd(a, b) == IF b = 0 THEN a ELSE Gcd(b, a % b)
Abs(x) == IF x < 0 THEN 0 - x ELSE x
\* a fraction in lowest terms (one float value has one representation)
RatNorm(n, d) == LET g == Gcd(Abs(n), d) IN Rat(n \div g, d \div g)
RatAdd(a, b) == RatNorm(a.n * b.d + b.n * a.d, a.d * b.d)
RatSub(a, b) == RatNorm(a.n * b.d - b.n * a.d, a.d * b.d)
RatMax(a, b) == IF RatLess(a, b) THEN b ELSE a

\* BacktestEngine.__init__
NewEngine == [dataframe |-> NoFrame, equity_curve |-> <<>>, trade_results |-> <<>>]

EngInit ==
    /\ engine = NewEngine
    /\ bt_runs = <<>>

\* BacktestEngine._close_position: the pnl as a fraction
bt_close_pnl(pos, exit_price, commission_pct) ==
    LET avg == pos.average_price
        qty == pos.total_qty
        gross_d == IF pos.direction = "LONG" THEN qty * exit_price * avg.d
                   ELSE qty * (2 * avg.n - exit_price * avg.d)
    IN  RatNorm(100 * gross_d - commission_pct * qty * exit_price * avg.d
                              - 100 * pos.total_cost * avg.d,
                100 * avg.d)

\* the loop of run_backtest from row i on; bar_done is the rest of the loop body
\* once the position logic of the row is through
RECURSIVE run_backtest_loop(_, _, _, _, _, _, _)
RECURSIVE bar_done(_, _, _, _, _, _, _)
bar_done(df, i, st, bar, cumulative_pnl, equity_curve, trade_results) ==
    LET pnl == bt_close_pnl(bar.closing, df[i].close, st.commission_pct) IN
    IF bar.event.closed
    THEN run_backtest_loop(df, i + 1, st, bar.pos, RatAdd(cumulative_pnl, pnl),
                           Append(equity_curve, RatAdd(cumulative_pnl, pnl)),
                           Append(trade_results, pnl))
    ELSE run_backtest_loop(df, i + 1, st, bar.pos, cumulative_pnl,
                           Append(equity_curve, cumulative_pnl), trade_results)

run_backtest_loop(df, i, st, position, cumulative_pnl, equity_curve, trade_results) ==
    IF i > Len(df)
    THEN [equity_curve |-> equity_curve, trade_results |-> trade_results]
    ELSE IF df[i].signal = "NaN"
    THEN run_backtest_loop(df, i + 1, st, position, cumulative_pnl,
                           Append(equity_curve, cumulative_pnl), trade_results)
    ELSE bar_done(df, i, st, backtest_bar(position, st, df[i].close, df[i].signal),
                  cumulative_pnl, equity_curve, trade_results)

\* run_backtest that goes on from the lists the previous run left on the engine
run_backtest_accumulate(eng, strategy_settings) ==
    LET last == IF eng.equity_curve = <<>> THEN ZeroRat
                ELSE eng.equity_curve[Len(eng.equity_curve)]
        out == run_backtest_loop(eng.dataframe, 1, strategy_settings, NoBtPosition, last,
                                 IF eng.equity_curve = <<>> THEN <<ZeroRat>>
                                 ELSE eng.equity_curve, eng.trade_results)
    IN  [eng EXCEPT !.equity_curve = out.equity_curve, !.trade_results = out.trade_results]

\* run_backtest up to generate_report: position = None, equity_curve = [0.0],
\* trade_results = [], cumulative_pnl = 0.0, then the loop over the copy
run_backtest(eng, strategy_settings) ==
    LET out == run_backtest_loop(eng.dataframe, 1, strategy_settings, NoBtPosition, ZeroRat,
                                 <<ZeroRat>>, <<>>)
    IN  [eng EXCEPT !.equity_curve = out.equity_curve, !.trade_results = out.trade_results]

RECURSIVE RatSum(_)
RatSum(xs) == IF xs = <<>> THEN ZeroRat ELSE RatAdd(Head(xs), RatSum(Tail(xs)))

\* the drawdown loop of generate_report over the curve from index i on
RECURSIVE max_drawdown(_, _, _, _)
max_drawdown(curve, i, peak, max_dd) ==
    IF i > Len(curve) THEN max_dd
    ELSE LET pk == IF i = 1 THEN curve[1] ELSE RatMax(peak, curve[i])
         IN  max_drawdown(curve, i + 1, pk, RatMax(max_dd, RatSub(pk, curve[i])))

\* BacktestEngine.generate_report; the averages and ratios follow from these
generate_report(eng) ==
    LET wins == SelectSeq(eng.trade_results, LAMBDA x : x.n > 0)
        losses == SelectSeq(eng.trade_results, LAMBDA x : x.n < 0)
    IN  [ total_trades |-> Len(eng.trade_results),
          wins |-> Len(wins), losses |-> Len(losses),
          total_profit |-> RatSum(eng.trade_results),
          gross_profit |-> RatSum(wins), gross_loss |-> RatSum(losses),
          max_drawdown |-> max_drawdown(eng.equity_curve, 1, ZeroRat, ZeroRat) ]

EngFrame == UNCHANGED <<coreVars, pageVars, fleetVars, flushVars, jobVars, emVars, gridVars>>

\* load_historical_data returns: self.dataframe = df
LoadHistoricalData ==
    /\ \E df \in HistoricalFrames : engine' = [engine EXCEPT !.dataframe = df]
    /\ UNCHANGED bt_runs
    /\ EngFrame

\* run_backtest(strategy_settings) on the loaded frame
RunBacktest ==
    /\ engine.dataframe # NoFrame
    /\ Len(bt_runs) < MaxRuns
    /\ \E st \in BacktestProfiles :
         LET eng == run_backtest(engine, st) IN
         /\ engine' = eng
         /\ bt_runs' = Append(bt_runs, [ dataframe |-> engine.dataframe, settings |-> st,
                                         report |-> generate_report(eng),
                                         trade_results |-> eng.trade_results,
                                         equity_curve |-> eng.equity_curve ])
    /\ EngFrame

(***************************************************************************)
(* BacktestEngine.load_historical_data: the pagination loop                *)
(* (src/core/backtest_engine.py)                                           *)
(*                                                                         *)
(* The exchange holds one kline per interval; GET /api/v3/klines answers   *)
(* with the first "limit" klines whose open time lies in                   *)
(* [startTime, endTime], oldest first.                                     *)
(***************************************************************************)
PageLimit == 2                     \* "limit": 1000
IntervalMs == 2                    \* open times are multiples of the interval
MaxMs == 8
Times == 0..MaxMs

PageInit ==
    /\ pg_pc = "idle"
    /\ pg_params = [startTime |-> 0, endTime |-> 0]
    /\ pg_rows = <<>>
    /\ pg_page = <<>>
    /\ pg_starts = <<>>
    /\ pg_server = 0

\* the open times in lo..hi that the exchange has a kline for, oldest first
RECURSIVE klines_between(_, _, _)
klines_between(lo, hi, newest) ==
    IF lo > hi \/ lo > newest THEN <<>>
    ELSE IF lo % IntervalMs = 0 THEN <<lo>> \o klines_between(lo + 1, hi, newest)
    ELSE klines_between(lo + 1, hi, newest)

\* the exchange's answer to one request
klines_response(params, newest) ==
    LET all == klines_between(params.startTime, params.endTime, newest) IN
    IF Len(all) <= PageLimit THEN all ELSE SubSeq(all, 1, PageLimit)

\* "if len(payload) < 1000 or last_open >= end_ms: break" without the length test
page_is_last_by_time(payload, end_ms) == payload[Len(payload)] >= end_ms

\* "if len(payload) < 1000 or last_open >= end_ms: break"
page_is_last(payload, end_ms) ==
    Len(payload) < PageLimit \/ payload[Len(payload)] >= end_ms

PageFrame == UNCHANGED <<coreVars, engVars, fleetVars, flushVars, jobVars, emVars, gridVars>>

\* load_historical_data is called: params are built and the first request goes out
LoadStart ==
    /\ pg_pc # "get"
    /\ \E start_ms \in Times, end_ms \in Times, newest \in {t \in Times : t % IntervalMs = 0} :
         /\ pg_params' = [startTime |-> start_ms, endTime |-> end_ms]
         /\ pg_starts' = <<start_ms>>
         /\ pg_server' = newest
    /\ pg_pc' = "get"
    /\ pg_rows' = <<>>
    /\ pg_page' = <<>>
    /\ PageFrame

\* "payload = await response.json()" returns: one turn of the while loop
PageReceived ==
    /\ pg_pc = "get"
    /\ \E ok \in BOOLEAN :
         LET payload == klines_response(pg_params, pg_server) IN
         IF ~ok
         THEN \* status >= 400, or the request failed: the call raises
              /\ pg_pc' = "raised"
              /\ UNCHANGED <<pg_params, pg_rows, pg_page, pg_starts>>
         ELSE /\ pg_page' = payload
              /\ IF payload = <<>>
                 THEN /\ pg_pc' = "done"
                      /\ UNCHANGED <<pg_params, pg_rows, pg_starts>>
                 ELSE /\ pg_rows' = pg_rows \o payload
                      /\ IF page_is_last(payload, pg_params.endTime)
                         THEN /\ pg_pc' = "done"
                              /\ UNCHANGED <<pg_params, pg_starts>>
                         ELSE /\ pg_pc' = "get"
                              /\ pg_params' = [pg_params EXCEPT
                                                 !.startTime = payload[Len(payload)] + 1]
                              /\ pg_starts' = Append(pg_starts, payload[Len(payload)] + 1)
    /\ UNCHANGED pg_server
    /\ PageFrame

(***************************************************************************)
(* Entry sizing against the total exposure of all pairs                    *)
(* (OrderManager.calculate_entry_size_usdt, BotManager.                    *)
(* get_total_open_exposure_usdt, PairWorker._open_initial_position,        *)
(* _open_order_with_usdt and _process_dca)                                 *)
(*                                                                         *)
(* Every worker runs the default settings in "Fixed" position size mode on *)
(* an account whose USDT balance stays at Balance.                         *)
(***************************************************************************)
Balance == 200
max_total_exposure_pct == 50
FleetSettings == [DefaultSettings EXCEPT !.safety_orders_count = 2]

FleetWorker ==
    [ pc |-> "idle", position_open |-> FALSE, total_cost |-> 0, last_order_usdt |-> 0,
      safety_orders_used |-> 0, current_exposure |-> 0, usdt |-> 0 ]

FleetInit == fleet = [s \in FeedSymbols |-> FleetWorker]

\* BotManager.get_total_open_exposure_usdt
RECURSIVE open_cost_of(_, _)
open_cost_of(f, syms) ==
    IF syms = {} THEN 0
    ELSE LET s == CHOOSE x \in syms : TRUE IN
         (IF f[s].position_open THEN f[s].total_cost ELSE 0) + open_cost_of(f, syms \ {s})
get_total_open_exposure_usdt(f) == open_cost_of(f, FeedSymbols)

\* calculate_entry_size_usdt, 0 for None
calculate_entry_size_usdt(balance, settings, current_exposure_usdt) ==
    LET max_exposure_usdt == (balance * max_total_exposure_pct) \div 100
        notional_usdt == settings.base_order_size_usdt
    IN  IF balance <= 0 THEN 0
        ELSE IF current_exposure_usdt + notional_usdt > max_exposure_usdt THEN 0
        ELSE notional_usdt

\* what a fill of usdt adds to total_cost: qty * price + commission
fill_cost(settings, usdt) == usdt + (settings.commission_pct * usdt) \div 100

FleetFrame == UNCHANGED <<coreVars, engVars, pageVars, flushVars, jobVars, emVars, gridVars>>

\* _open_initial_position up to "await calculate_entry_size_usdt(...)": the
\* exposure of all pairs is read before the await
EntryBegin ==
    /\ \E s \in FeedSymbols :
         /\ fleet[s].pc = "idle" /\ ~fleet[s].position_open
         /\ fleet' = [fleet EXCEPT ![s].pc = "sizing",
                                   ![s].current_exposure = get_total_open_exposure_usdt(fleet)]
    /\ FleetFrame

\* get_balance answered; calculate_entry_size_usdt returns and, unless it is
\* None, _open_order_with_usdt places the order
EntrySizeKnown ==
    /\ \E s \in FeedSymbols :
         /\ fleet[s].pc = "sizing"
         /\ LET base_usdt == calculate_entry_size_usdt(Balance, FleetSettings,
                                                       fleet[s].current_exposure) IN
            fleet' = IF base_usdt = 0
                     THEN [fleet EXCEPT ![s].pc = "idle"]
                     ELSE [fleet EXCEPT ![s].pc = "entry", ![s].usdt = base_usdt]
    /\ FleetFrame

\* _process_dca: the price fell by the safety step; no exposure test is made
SafetyBegin ==
    /\ \E s \in FeedSymbols :
         /\ fleet[s].pc = "idle" /\ fleet[s].position_open
         /\ fleet[s].safety_orders_used < FleetSettings.safety_orders_count
         /\ fleet' = [fleet EXCEPT ![s].pc = "safety",
                                   ![s].usdt = fleet[s].last_order_usdt
                                               * FleetSettings.volume_multiplier]
    /\ FleetFrame

\* the order is filled: _open_order_with_usdt books it, and the caller
\* (_open_initial_position or _process_dca) notes the order size
FleetOrderFilled ==
    /\ \E s \in FeedSymbols :
         /\ fleet[s].pc \in {"entry", "safety"}
         /\ fleet' = [fleet EXCEPT
                        ![s].pc = "idle", ![s].position_open = TRUE, ![s].usdt = 0,
                        ![s].total_cost = fleet[s].total_cost
                                          + fill_cost(FleetSettings, fleet[s].usdt),
                        ![s].last_order_usdt = fleet[s].usdt,
                        ![s].safety_orders_used =
                            IF fleet[s].pc = "safety" THEN fleet[s].safety_orders_used + 1
                            ELSE fleet[s].safety_orders_used]
    /\ FleetFrame

\* the order is rejected or times out: nothing is booked
FleetOrderFailed ==
    /\ \E s \in FeedSymbols :
         /\ fleet[s].pc = "entry"
         /\ fleet' = [fleet EXCEPT ![s].pc = "idle", ![s].usdt = 0]
    /\ FleetFrame

\* take-profit: _close_position and _reset_position_state
FleetClose ==
    /\ \E s \in FeedSymbols :
         /\ fleet[s].pc = "idle" /\ fleet[s].position_open
         /\ fleet' = [fleet EXCEPT ![s] = FleetWorker]
    /\ FleetFrame

(***************************************************************************)
(* The debounced runtime save (BotManager.schedule_runtime_save,           *)
(* _flush_runtime_state_debounced, _save_pair_runtime), for pairs that     *)
(* stay in BotManager.pairs                                                *)
(***************************************************************************)
MaxVersion == 2
NoSaving == [sym |-> NoSymbol, runtime |-> 0]

FlushInit ==
    /\ state_flush_task = "none"
    /\ flush_dirty = {}
    /\ flush_saving = NoSaving
    /\ runtime_version = [s \in FeedSymbols |-> 0]
    /\ runtime_saved = [s \in FeedSymbols |-> 0]

FlushFrame ==
    UNCHANGED <<riskVars, feedVars, mgrVars, wrkVars, connVars, storeVars, btVars, rateVars,
                sigVars, engVars, pageVars, fleetVars, jobVars, emVars, gridVars,
                pairs, next_worker, background, reg_op, remove_call>>

\* schedule_runtime_save: the new value of _state_flush_task
schedule_runtime_save(task) ==
    IF task \in {"none", "done"} THEN "sleeping" ELSE task

\* the worker's runtime state changes and _notify_runtime_update calls
\* schedule_runtime_save(sym)
ScheduleRuntimeSave ==
    /\ \E sym \in FeedSymbols :
         /\ runtime_version[sym] < MaxVersion
         /\ runtime_version' = [runtime_version EXCEPT ![sym] = @ + 1]
         /\ state_runtime_dirty' = state_runtime_dirty \cup {sym}
    /\ state_flush_task' = schedule_runtime_save(state_flush_task)
    /\ UNCHANGED <<flush_dirty, flush_saving, runtime_saved>>
    /\ FlushFrame

\* _save_pair_runtime up to its await: the runtime is read and handed to the
\* store thread
save_pair_runtime_begin(sym) == [sym |-> sym, runtime |-> runtime_version[sym]]

\* _flush_runtime_state_debounced after "await asyncio.sleep(1.0)": the dirty
\* set is copied and cleared, and the first symbol's save is begun
FlushWake ==
    /\ state_flush_task = "sleeping"
    /\ state_runtime_dirty' = {}
    /\ IF state_runtime_dirty = {}
       THEN /\ state_flush_task' = "done"
            /\ UNCHANGED <<flush_dirty, flush_saving>>
       ELSE /\ state_flush_task' = "writing"
            /\ \E sym \in state_runtime_dirty :
                 /\ flush_dirty' = state_runtime_dirty \ {sym}
                 /\ flush_saving' = save_pair_runtime_begin(sym)
    /\ UNCHANGED <<runtime_version, runtime_saved>>
    /\ FlushFrame

\* state_store.save_pair_runtime returns; the loop goes on to the next symbol
\* of its copy, and after the last one the task ends
FlushSaveDone ==
    /\ state_flush_task = "writing"
    /\ runtime_saved' = [runtime_saved EXCEPT ![flush_saving.sym] = flush_saving.runtime]
    /\ IF flush_dirty = {}
       THEN /\ state_flush_task' = "done"
            /\ flush_saving' = NoSaving
            /\ UNCHANGED flush_dirty
       ELSE /\ state_flush_task' = "writing"
            /\ \E sym \in flush_dirty :
                 /\ flush_dirty' = flush_dirty \ {sym}
                 /\ flush_saving' = save_pair_runtime_begin(sym)
    /\ UNCHANGED <<state_runtime_dirty, runtime_version>>
    /\ FlushFrame

(***************************************************************************)
(* _save_pair_config at the grain of its await: the coroutine looks the    *)
(* pair up and hands state_store.save_pair_config to a thread; the threads *)
(* of asyncio.to_thread run in no fixed order (src/core/bot_manager.py)    *)
(***************************************************************************)
JobInit == store_jobs = {}

JobFrame ==
    UNCHANGED <<riskVars, feedVars, mgrVars, wrkVars, btVars, rateVars, sigVars,
                engVars, pageVars, fleetVars, flushVars, emVars, gridVars, connVars,
                pairs, next_worker, state_runtime_dirty, remove_call>>

\* the thread's call of state_store.save_pair_config
save_job_runs(d, job) == save_pair_config(d, job.sym, job.data)

\* _save_pair_config up to "await asyncio.to_thread(...)"
SaveConfigBegin ==
    /\ \E c \in background :
         /\ c.co = "save_pair_config"
         /\ background' = background \ {c}
         /\ store_jobs' = IF pairs[c.sym].present
                          THEN store_jobs \cup {[sym |-> c.sym, data |-> pair_config(pairs[c.sym])]}
                          ELSE store_jobs
         /\ reg_op' = [op |-> "save_pair_config", sym |-> c.sym, returned |-> 0]
    /\ UNCHANGED storeVars
    /\ JobFrame

\* the thread runs: INSERT ... ON CONFLICT DO UPDATE
SaveConfigThread ==
    /\ \E job \in store_jobs :
         /\ store_jobs' = store_jobs \ {job}
         /\ db' = save_job_runs(db, job)
         /\ db' # db => saved' = [saved EXCEPT ![job.sym].has_config = TRUE,
                                               ![job.sym].config = job.data]
         /\ db' = db => saved' = saved
         /\ st_op' = [op |-> "save_pair_config", id |-> job.sym, data |-> job.data]
         /\ reg_op' = [op |-> "save_pair_config", sym |-> job.sym, returned |-> 0]
    /\ loaded' = <<>>
    /\ UNCHANGED background
    /\ JobFrame

\* remove_pair is started with loop.create_task (src/ui/pairs_tab.py): every
\* coroutine spawned before it has run up to its first await by then
RemovePairTask ==
    /\ background = {}
    /\ RemovePair
    /\ UNCHANGED store_jobs

(***************************************************************************)
(* BotManager.emergency_stop at the grain of its awaits: the pass over     *)
(* pairs.values() that cancels each worker's active order, then            *)
(* stop_all_pairs.  The worker of MainSymbol has its turn first; the pass  *)
(* then awaits the cancellations of the other pairs while the worker's     *)
(* task goes on running.                                                   *)
(***************************************************************************)
EmInit == emergency = "idle"

EmFrame ==
    UNCHANGED <<riskVars, mgrVars, feedVars, connVars, storeVars, regVars, btVars, rateVars,
                sigVars, engVars, pageVars, fleetVars, flushVars, jobVars, gridVars,
                now, ex_amt, ex_cost, pair_settings, store_config, store_runtime, boot,
                restarts, closed_at, closed_price>>

\* worker.cancel_active_order() for the worker: cancel_open_order
EmergencyCancel ==
    /\ AtAwait /\ boot = "up"
    /\ emergency \in {"idle", "done"}
    /\ emergency' = "pass"
    /\ ex_orders' = cancel_order(ex_orders, active_order)
    /\ active_order' = NoOrder
    /\ last_step' = "other"
    /\ UNCHANGED <<worker, pc, loc>>
    /\ EmFrame

\* stop_all_pairs: stop_pair for the worker's task; emergency_stop returns
EmergencyStopAll ==
    /\ AtAwait
    /\ emergency = "pass"
    /\ emergency' = "done"
    /\ worker' = IF pc = "none" THEN worker ELSE stop_pair(worker, pc, loc)
    /\ pc' = "none"
    /\ loc' = IdleLoc
    /\ last_step' = "other"
    /\ UNCHANGED <<active_order, ex_orders>>
    /\ EmFrame

(***************************************************************************)
(* StrategyOptimizer: the grid search (src/core/optimizer.py)              *)
(***************************************************************************)
max_parallel_tasks == 2
\* the parameter lists the operator types into the optimizer tab
TakeProfitLists == {<<25, 50>>, <<25>>, <<>>}
SafetyStepLists == {<<10, 50>>, <<10>>}
\* the frames load_historical_data hands over: none, one entry signal, or two
\* with a rise and a fall after them
GridFrames ==
    { NoFrame,
      <<EntryRow, [close |-> 4, signal |-> "NONE"], [close |-> 2, signal |-> "NONE"]>>,
      <<EntryRow, [close |-> 5, signal |-> "NONE"], EntryRow,
        [close |-> 4, signal |-> "NONE"], [close |-> 3, signal |-> "NONE"]>> }
\* the settings of the optimizer tab, with run_mode = "Backtest"
GridBaseSettings ==
    [DefaultSettings EXCEPT !.run_mode = "Backtest", !.mode = "Futures", !.enable_futures = TRUE]
IdleGrid ==
    [ phase |-> "idle", ranges |-> [take_profit_pct |-> <<>>, safety_step_pct |-> <<>>],
      dataframe |-> NoFrame, combinations |-> <<>>, task |-> <<>>,
      permits |-> max_parallel_tasks, results |-> <<>>, launched |-> <<>>, peak |-> 0,
      outcome |-> <<>> ]
GridInit == grid = IdleGrid
GridFrame ==
    UNCHANGED <<coreVars, engVars, pageVars, fleetVars, flushVars, jobVars, emVars>>

\* the product enumerated with the first key varying fastest, cut to the
\* length of the first list
combinations_zipped(ranges) ==
    LET tp == ranges.take_profit_pct
        step == ranges.safety_step_pct
    IN  [ k \in 1..Len(tp) |->
            [ take_profit_pct |-> tp[k],
              safety_step_pct |-> step[((k - 1) % Len(step)) + 1] ] ]

\* itertools.product over the values, zipped with the keys: the first key
\* varies slowest
combinations(ranges) ==
    LET tp == ranges.take_profit_pct
        step == ranges.safety_step_pct
    IN  [ k \in 1..(Len(tp) * Len(step)) |->
            [ take_profit_pct |-> tp[((k - 1) \div Len(step)) + 1],
              safety_step_pct |-> step[((k - 1) % Len(step)) + 1] ] ]

\* profit_factor of generate_report
profit_factor(report) ==
    LET gp == report.gross_profit
        gl == report.gross_loss
    IN  IF gl.n = 0 THEN ZeroRat ELSE RatNorm(gp.n * gl.d, gp.d * Abs(gl.n))

\* evaluate_combination: the settings are copied and patched, a fresh engine
\* runs the backtest on a copy of the frame
combination_result(params, report) ==
    [ params |-> params, total_profit |-> report.total_profit,
      max_drawdown |-> report.max_drawdown, profit_factor |-> profit_factor(report),
      total_trades |-> report.total_trades ]
evaluate_combination(dataframe, base_settings, params) ==
    combination_result(params, generate_report(run_backtest(
        [NewEngine EXCEPT !.dataframe = dataframe],
        [base_settings EXCEPT !.take_profit_pct = params.take_profit_pct,
                              !.safety_step_pct = params.safety_step_pct])))
\* result["index"] = index
indexed_result(index, result) ==
    [ index |-> index, params |-> result.params, total_profit |-> result.total_profit,
      max_drawdown |-> result.max_drawdown, profit_factor |-> result.profit_factor ]

\* the sort key of rank_results, compared as tuples
rank_key_less(a, b) ==
    \/ RatLess(b.profit_factor, a.profit_factor)
    \/ /\ a.profit_factor = b.profit_factor
       /\ \/ RatLess(a.max_drawdown, b.max_drawdown)
          \/ a.max_drawdown = b.max_drawdown /\ RatLess(b.total_profit, a.total_profit)

\* list.sort is stable: a result goes behind those with a smaller key and
\* behind the earlier ones with an equal key
rank_results(rs) ==
    LET ahead(i) == {j \in DOMAIN rs : \/ rank_key_less(rs[j], rs[i])
                                       \/ j < i /\ ~rank_key_less(rs[i], rs[j])}
    IN  [p \in DOMAIN rs |-> rs[CHOOSE i \in DOMAIN rs : Cardinality(ahead(i)) = p - 1]]

running_tasks(g) == {i \in DOMAIN g.task : g.task[i] = "running"}

\* run_grid_search up to asyncio.gather: self.results = [], the frame is
\* loaded, the combinations are listed and one task per combination is created.
\* What a combination's thread will return depends on the frame, the base
\* settings and the combination alone: outcome[i] holds it from here on
RunGridSearch ==
    /\ grid.phase = "idle"
    /\ \E tp \in TakeProfitLists, step \in SafetyStepLists, df \in GridFrames :
         LET ranges == [take_profit_pct |-> tp, safety_step_pct |-> step]
             combos == combinations(ranges)
         IN  grid' = [ phase |-> "gather", ranges |-> ranges, dataframe |-> df,
                       combinations |-> combos,
                       task |-> [i \in DOMAIN combos |-> "created"],
                       permits |-> max_parallel_tasks, results |-> <<>>,
                       launched |-> [i \in DOMAIN combos |-> 0], peak |-> 0,
                       outcome |-> IF df = NoFrame THEN <<>>
                                   ELSE [i \in DOMAIN combos |->
                                           evaluate_combination(df, GridBaseSettings,
                                                                combos[i])] ]
    /\ GridFrame

\* _run_combination enters "async with semaphore" and hands the backtest to a
\* thread; the tasks run in the order of their creation and the semaphore
\* wakes its waiters in that order
StartEvaluation ==
    /\ grid.permits > 0
    /\ \E i \in DOMAIN grid.task :
         /\ grid.task[i] = "created"
         /\ \A j \in DOMAIN grid.task : j < i => grid.task[j] # "created"
         /\ grid' = [grid EXCEPT !.task[i] = "running", !.permits = @ - 1,
                                 !.launched[i] = @ + 1,
                                 !.peak = Max(@, Cardinality(running_tasks(grid)) + 1)]
    /\ GridFrame

\* the thread of one combination returns: the result is appended and the
\* semaphore released
EvaluationDone ==
    /\ grid.dataframe # NoFrame
    /\ \E i \in running_tasks(grid) :
         grid' = [grid EXCEPT !.task[i] = "done", !.permits = @ + 1,
                              !.results = Append(@, indexed_result(i, grid.outcome[i]))]
    /\ GridFrame

\* run_backtest raises "Historical data is not loaded" on an empty frame: the
\* semaphore is released and gather raises with the first exception
EvaluationRaises ==
    /\ grid.dataframe = NoFrame
    /\ \E i \in running_tasks(grid) :
         grid' = [grid EXCEPT !.task[i] = "raised", !.permits = @ + 1,
                              !.phase = IF @ = "gather" THEN "failed" ELSE @]
    /\ GridFrame

\* gather returns, rank_results sorts self.results, run_grid_search returns
GatherDone ==
    /\ grid.phase = "gather"
    /\ \A i \in DOMAIN grid.task : grid.task[i] = "done"
    /\ grid' = [grid EXCEPT !.phase = "ranked", !.results = rank_results(@)]
    /\ GridFrame

(***************************************************************************)
(* Specifications                                                          *)
(***************************************************************************)
RiskNext == RegisterTradeResult
\* the state after construction: with an idle worker, and with a configured one
ExtInit == EngInit /\ PageInit /\ FleetInit /\ FlushInit /\ JobInit /\ EmInit /\ GridInit
AuxInit == ConnInit /\ StoreInit /\ RegInit /\ BtInit /\ RateInit /\ SigInit /\ ExtInit
IdleInit == RiskInit /\ FeedInit /\ MgrInit /\ WorkerInitWith(DefaultSettings) /\ AuxInit
Init == RiskInit /\ FeedInit /\ MgrInit /\ WorkerInit /\ AuxInit
SpecRisk == IdleInit /\ [][RiskNext]_vars

FeedNext == HandleKline \/ HandleMiniTicker
SpecFeed == IdleInit /\ [][FeedNext]_vars

MgrNext ==
    \/ RestorePair \/ InitializeDone \/ StartPair \/ TaskStep
    \/ StopPairBegin \/ StopPairResume \/ StopAllBegin \/ StopAllResume
    \/ RecordTrade
SpecMgr == IdleInit /\ [][MgrNext]_vars

WorkerNext ==
    \/ ProcessClosedCandle \/ EntrySized \/ OrderMonitor \/ OrderWatchdog \/ ProcessDca
    \/ CheckBreakEven \/ CheckTakeProfit \/ CloseDone \/ PeriodicPositionSync \/ LoopWake
    \/ PriceTick \/ CandleClose \/ Tick \/ ExchangeFill \/ StartWorker \/ StopWorker
    \/ EmergencyStop \/ CloseNow
SpecWorker == Init /\ [][WorkerNext]_vars

\* a futures pair with market orders, and an operator who edits its strategy
FuturesInit ==
    /\ RiskInit /\ FeedInit /\ MgrInit /\ AuxInit
    /\ WorkerInitWith([DefaultSettings EXCEPT !.mode = "Futures", !.enable_futures = TRUE])
ModeNext ==
    \/ ProcessClosedCandle \/ EntrySized \/ OrderMonitor \/ ProcessDca
    \/ CheckBreakEven \/ CheckTakeProfit \/ CloseDone \/ PeriodicPositionSync \/ LoopWake
    \/ PriceTick \/ CandleClose \/ Tick \/ StartWorker
    \/ UpdateSettings \/ UpdatePairMode
SpecMode == FuturesInit /\ [][ModeNext]_vars

\* a spot pair with LIMIT orders and a take-profit within the price range
LimitInit ==
    /\ RiskInit /\ FeedInit /\ MgrInit /\ AuxInit
    /\ WorkerInitWith([DefaultSettings EXCEPT !.use_market_order = FALSE, !.take_profit_pct = 15])
SpecLimit == LimitInit /\ [][WorkerNext]_vars

\* a futures pair with LIMIT orders, and an operator with the emergency button
EmergencyInit ==
    /\ RiskInit /\ FeedInit /\ MgrInit /\ AuxInit
    /\ WorkerInitWith([DefaultSettings EXCEPT !.mode = "Futures", !.enable_futures = TRUE,
                                              !.use_market_order = FALSE])
EmergencyNext ==
    \/ ProcessClosedCandle \/ EntrySized \/ OrderMonitor \/ OrderWatchdog \/ ProcessDca
    \/ CheckBreakEven \/ CheckTakeProfit \/ CloseDone \/ PeriodicPositionSync \/ LoopWake
    \/ PriceTick \/ CandleClose \/ Tick \/ ExchangeFill \/ StartWorker
    \/ EmergencyCancel \/ EmergencyStopAll
SpecEmergency == EmergencyInit /\ [][EmergencyNext]_vars

\* a restored pair about to be resynced: its settings, the runtime row it was
\* restored from, what the exchange holds by now, and the ticker
ResyncProfiles ==
    { DefaultSettings,
      [DefaultSettings EXCEPT !.mode = "Futures", !.enable_futures = TRUE],
      [DefaultSettings EXCEPT !.mode = "Futures", !.enable_futures = TRUE, !.run_mode = "Paper"] }
SavedWorkers(settings) ==
    {NewWorker(settings)} \cup
    { apply_fill([NewWorker(settings) EXCEPT !.direction = d], 15, 4) :
        d \in IF settings.mode = "Futures" THEN {"LONG", "SHORT"} ELSE {"LONG"} }
ExchangeAmounts(settings) ==
    IF settings.mode = "Futures" THEN {0 - 15, 0, 15, 20} ELSE {0, 15, 20}
ResyncInit ==
    /\ RiskInit /\ MgrInit /\ AuxInit
    /\ \E settings \in ResyncProfiles :
         /\ \E w \in SavedWorkers(settings) :
              worker = apply_runtime_state(NewWorker(settings), get_runtime_state(w, FALSE))
         /\ \E amt \in ExchangeAmounts(settings) :
              /\ ex_amt = amt
              /\ ex_cost = IF settings.mode = "Futures"
                           THEN 4 * (IF amt < 0 THEN 0 - amt ELSE amt) ELSE 0
         /\ pair_settings = settings /\ store_config = settings
    /\ store_runtime = get_runtime_state(worker, FALSE)
    /\ \E p \in Prices \cup {NoPrice} : prices = [s \in FeedSymbols |-> p]
    /\ candles = [s \in FeedSymbols |-> <<>>]
    /\ candle_versions = [s \in FeedSymbols |-> 0]
    /\ feed_event = [e |-> "none"]
    /\ pc = "none" /\ loc = IdleLoc /\ now = StartTime /\ active_order = NoOrder
    /\ ex_orders = [i \in OrderIds |-> NoExOrder]
    /\ boot = "resync" /\ restarts = 0 /\ closed_at = 0 /\ closed_price = 0
    /\ last_step = "other"
ResyncNext == ResyncPair \/ PriceTick
SpecResync == ResyncInit /\ [][ResyncNext]_vars

RestoreNext ==
    \/ ProcessClosedCandle \/ EntrySized \/ OrderMonitor \/ OrderWatchdog \/ ProcessDca
    \/ CheckBreakEven \/ CheckTakeProfit \/ CloseDone \/ PeriodicPositionSync \/ LoopWake
    \/ PriceTick \/ CandleClose \/ Tick \/ ExchangeFill \/ StartWorker
    \/ UpdateSettings \/ Restart \/ ResyncDone
SpecRestore == Init /\ [][RestoreNext]_vars

ConnNext ==
    \/ Subscribe \/ Unsubscribe \/ ConnectOk \/ ConnectFail \/ Recv \/ ConnLost
    \/ BackoffDone \/ WsShutdown
\* the event loop keeps running the listener task; a connection attempt that is
\* repeated for ever succeeds at some point
ConnFairness == WF_vars(BackoffDone) /\ SF_vars(ConnectOk)
SpecConn == IdleInit /\ [][ConnNext]_vars /\ ConnFairness

PairsNext ==
    \/ AddPair \/ RemovePair \/ RemovePairDelete \/ RunBackground \/ FlushRuntimeState
SpecPairs == IdleInit /\ [][PairsNext]_vars

BacktestNext == BacktestStart \/ BarStep
SpecBacktest == IdleInit /\ [][BacktestNext]_vars

RateNext == AcquireRateLimit \/ LockGranted \/ SleepDone \/ ClockTick
SpecRate == IdleInit /\ [][RateNext]_vars

SignalNext == GenerateSignal \/ NextCandle
SpecSignal == IdleInit /\ [][SignalNext]_vars

EngineNext == LoadHistoricalData \/ RunBacktest
SpecEngine == IdleInit /\ [][EngineNext]_vars

PagingNext == LoadStart \/ PageReceived
\* every request is answered or fails: the session has a total timeout of 20 s
PagingFairness == WF_vars(PageReceived)
SpecPaging == IdleInit /\ [][PagingNext]_vars /\ PagingFairness

FleetNext ==
    \/ EntryBegin \/ EntrySizeKnown \/ SafetyBegin
    \/ FleetOrderFilled \/ FleetOrderFailed \/ FleetClose
SpecFleet == IdleInit /\ [][FleetNext]_vars

GridNext ==
    \/ RunGridSearch \/ StartEvaluation \/ EvaluationDone \/ EvaluationRaises \/ GatherDone
\* the event loop runs every ready task, and a backtest over a finite frame
\* comes to an end in its thread
GridFairness ==
    /\ WF_vars(StartEvaluation) /\ WF_vars(EvaluationDone)
    /\ WF_vars(EvaluationRaises) /\ WF_vars(GatherDone)
SpecGrid == IdleInit /\ [][GridNext]_vars /\ GridFairness

FlushNext == ScheduleRuntimeSave \/ FlushWake \/ FlushSaveDone
FlushFairness == WF_vars(FlushWake) /\ WF_vars(FlushSaveDone)
SpecFlush == IdleInit /\ [][FlushNext]_vars /\ FlushFairness

RemovalNext ==
    \/ AddPair \/ RunBackground \/ SaveConfigBegin \/ SaveConfigThread
    \/ RemovePairTask \/ RemovePairDelete
SpecRemoval == IdleInit /\ [][RemovalNext]_vars

StoreNext == SavePairConfig \/ SavePairRuntime \/ DeletePair \/ LoadAllPairs
SpecStore == IdleInit /\ [][StoreNext]_vars

(***************************************************************************)
(* Claims: feed connection                                                 *)
(***************************************************************************)
\* the streams of the subscription set at the recorded timeframes
SubscribedStreams ==
    { [pair |-> q, stream |-> "miniTicker", tf |-> "none"] : q \in subscribed_pairs }
    \cup { [pair |-> q, stream |-> "kline",
            tf |-> IF pair_timeframes[q] = "none" THEN "1m" ELSE pair_timeframes[q]] :
           q \in subscribed_pairs }

MalformedFields(p) ==
    \/ p.e = "miniTicker" /\ (p.s = "none" \/ p.c < 0)
    \/ p.e = "kline" /\ (p.s = "none" \/ \E f \in {p.k.o, p.k.h, p.k.l, p.k.c, p.k.v} : f < 0)

\* C12: a malformed message (a ticker or kline with missing or non-numeric
\* fields, text that is not JSON, JSON that is not an object) is dropped:
\* prices, candles and candle_versions are unchanged and the listener stays
\* on its open connection, waiting for the next message.
C12_MalformedDropped ==
    [][ (\/ ws_step' = "decode_error"
         \/ ws_step' = "received" /\ MalformedFields(feed_event'))
        => /\ prices' = prices /\ candles' = candles /\ candle_versions' = candle_versions
           /\ connection' = "open" /\ listen_pc' = "recv"
      ]_vars

(***************************************************************************)
(* Claims: StateStore                                                      *)
(***************************************************************************)
\* C13: save_pair_config(id, c) leaves the stored runtime of row id as it
\* was, save_pair_runtime(id, r) leaves its stored config as it was; when the
\* row did not exist the sibling column is created as an empty object; neither
\* call changes any other row.
C13_SaveKeepsSibling ==
    [][ /\ st_op'.op = "save_pair_config" =>
            /\ db'[st_op'.id].runtime_json =
                 (IF db[st_op'.id].present THEN db[st_op'.id].runtime_json ELSE db'[st_op'.id].runtime_json)
            /\ ~db[st_op'.id].present => json_loads(db'[st_op'.id].runtime_json) = EmptyObject
            /\ \A o \in StoreIds \ {st_op'.id} : db'[o] = db[o]
        /\ st_op'.op = "save_pair_runtime" =>
            /\ db'[st_op'.id].config_json =
                 (IF db[st_op'.id].present THEN db[st_op'.id].config_json ELSE db'[st_op'.id].config_json)
            /\ ~db[st_op'.id].present => json_loads(db'[st_op'.id].config_json) = EmptyObject
            /\ \A o \in StoreIds \ {st_op'.id} : db'[o] = db[o] ]_vars

\* a config save has just kept a non-empty runtime of its row, next to another row
C13_Witness ==
    /\ st_op.op = "save_pair_config"
    /\ st_op.data # EmptyObject
    /\ saved[st_op.id].has_runtime
    /\ saved[st_op.id].runtime # EmptyObject
    /\ db[st_op.id].runtime_json = json_dumps(saved[st_op.id].runtime)
    /\ \E o \in StoreIds \ {st_op.id} : db[o].present

RecordsOf(id) == { i \in DOMAIN loaded : loaded[i].pair_id = id }

\* C14: once a config c and a runtime r have been saved for a pair id, in
\* either order, load_all_pairs returns exactly one record for the id, with
\* config c and runtime r; after delete_pair(id) it returns no record for it.
C14_SaveLoadRoundTrip ==
    st_op.op = "load_all_pairs" =>
        \A id \in StoreIds :
          /\ saved[id].has_config /\ saved[id].has_runtime =>
                /\ Cardinality(RecordsOf(id)) = 1
                /\ \A i \in RecordsOf(id) :
                     loaded[i].config = saved[id].config /\ loaded[i].runtime = saved[id].runtime
          /\ ~saved[id].has_config /\ ~saved[id].has_runtime => RecordsOf(id) = {}

\* a load returns a float config and a string runtime for one pair and nothing
\* for a pair that was saved and then deleted
C14_Witness ==
    /\ st_op.op = "load_all_pairs"
    /\ \E id \in StoreIds :
         /\ saved[id].has_config /\ saved[id].has_runtime
         /\ \E e \in saved[id].config : e.val.t = "float"
         /\ \E e \in saved[id].runtime : e.val.t = "str"
         /\ \E i \in DOMAIN loaded : loaded[i].pair_id = id /\ loaded[i].config = saved[id].config
    /\ Len(loaded) = 1

(***************************************************************************)
(* Claims: RiskManager                                                     *)
(***************************************************************************)
RECURSIVE LosingSuffix(_)
LosingSuffix(seq) ==
    IF seq = <<>> \/ seq[Len(seq)] >= 0 THEN 0
    ELSE 1 + LosingSuffix(SubSeq(seq, 1, Len(seq) - 1))

\* C9: after any sequence of register_trade_result calls consecutive_losses is
\* the length of the longest suffix of results with pnl < 0, and the last call
\* returned true exactly when that count is at least 3.
C9_LossStreak ==
    /\ consecutive_losses = LosingSuffix(results)
    /\ results # <<>> => (risk_result <=> consecutive_losses >= 3)

\* a streak of three was reached after an earlier streak had been reset
C9_Witness ==
    /\ Len(results) = 5
    /\ results[1] < 0 /\ results[2] >= 0
    /\ consecutive_losses = 3 /\ risk_result

(***************************************************************************)
(* Claims: market feed                                                     *)
(***************************************************************************)
\* C10: a well-formed kline with k.x true advances the symbol's version by
\* exactly 1 and appends exactly that candle, keeping at most the last 200,
\* and leaves every other symbol alone; a kline with k.x false changes
\* neither candle_versions nor candles.
C10_ClosedKline ==
    [][ LET p == feed_event' IN
        p.e = "kline" =>
          /\ (p.s \in FeedSymbols /\ p.k.x
                /\ \A f \in {p.k.o, p.k.h, p.k.l, p.k.c, p.k.v} : f >= 0) =>
               LET old == candles[p.s]
                   new == candles'[p.s]
                   shift == Len(old) + 1 - Len(new) IN
               /\ candle_versions'[p.s] = candle_versions[p.s] + 1
               /\ Len(new) = Min(Len(old) + 1, 200)
               /\ new[Len(new)] = [open |-> p.k.o, high |-> p.k.h, low |-> p.k.l,
                                   close |-> p.k.c, volume |-> p.k.v]
               /\ \A i \in 1..(Len(new) - 1) : new[i] = old[i + shift]
               /\ \A s \in FeedSymbols \ {p.s} :
                    candle_versions'[s] = candle_versions[s] /\ candles'[s] = candles[s]
          /\ ~p.k.x => candle_versions' = candle_versions /\ candles' = candles
      ]_vars

\* a closed kline arrived while the cache already held 200 candles
C10_Witness ==
    /\ feed_event.e = "kline" /\ feed_event.s = MainSymbol /\ feed_event.k.x
    /\ candle_versions[MainSymbol] = 202
    /\ Len(candles[MainSymbol]) = 200
    /\ candle_versions["ETHUSDT"] = 1

(***************************************************************************)
(* Claims: the pair registry and start_pair                                *)
(***************************************************************************)
\* C15: start_pair creates no task when the pair is unknown, when its exchange
\* is not Binance, when its run_mode is Backtest, or when a task of the symbol
\* has not finished yet; a step creates at most one task.
C15_StartPairGuards ==
    [][ LET created == { t \in TaskIds : task_state[t] = "free" /\ task_state'[t] = "created" } IN
        /\ Cardinality(created) <= 1
        /\ \A t \in created :
             /\ ~start_refused(pairs'[task_sym'[t]])
             /\ ~\E u \in TaskIds : TaskAlive(u) /\ task_sym[u] = task_sym'[t] ]_vars

\* C16: add_pair for a symbol that is already present, in any letter case and
\* with any mode or exchange, returns the existing worker and changes nothing:
\* no new worker, no spawned subscribe or config save, no runtime save scheduled.
C16_AddPairIdempotent ==
    [][ (reg_op'.op = "add_pair" /\ pairs[reg_op'.sym].present) =>
            /\ reg_op'.returned = pairs[reg_op'.sym].instance
            /\ pairs' = pairs
            /\ next_worker' = next_worker
            /\ background' = background
            /\ state_runtime_dirty' = state_runtime_dirty
            /\ subscribed_pairs' = subscribed_pairs
            /\ db' = db ]_vars

\* add_pair has just returned the worker of a Binance pair whose spawned
\* coroutines have run and whose runtime save has been flushed
C16_Witness ==
    /\ reg_op.op = "add_pair"
    /\ pairs[reg_op.sym].present
    /\ pairs[reg_op.sym].exchange_name = "Binance"
    /\ reg_op.returned = pairs[reg_op.sym].instance
    /\ next_worker = 1
    /\ background = {}
    /\ state_runtime_dirty = {}
    /\ db[reg_op.sym].present

(***************************************************************************)
(* Claims: run modes                                                       *)
(***************************************************************************)
\* C17: a worker whose run_mode is Paper never invokes an exchange operation:
\* it is never suspended in calculate_entry_size_usdt, which asks the exchange
\* for the balance (and for the mark price when no ticker price is known), and
\* its periodic position sync never calls exchange.get_position.
C17_PaperNoExchangeCalls ==
    worker.strategy_settings.run_mode = "Paper" =>
        /\ pc # "sizing"
        /\ last_step # "get_position"

\* C18: fed the same settings, bar-close prices and per-bar entry signals, the
\* backtest engine and the Paper worker do the same thing at every bar: both
\* open or neither, with the same direction, quantity and cost basis; both add
\* a safety order or neither; both arm break-even or neither; both close or
\* neither, with a PnL of the same sign.
C18_BacktestMatchesWorker == bt_event = wk_event

(***************************************************************************)
(* Claims: the REST rate limiter                                           *)
(***************************************************************************)
AdmittedIn(t) ==
    Cardinality({ i \in DOMAIN admissions : admissions[i] >= t /\ admissions[i] < t + WindowTicks })

\* C19: whatever the interleaving of the callers of acquire_rate_limit, no
\* 1-second window holds more than max_requests_per_second admissions, and at
\* most one caller at a time is inside the locked admission block.
C19_RateLimited ==
    /\ \A t \in 0..MaxClock : AdmittedIn(t) <= max_requests_per_second
    /\ Cardinality({ c \in Callers : rl_pc[c] = "sleeping" }) <= 1
    /\ \A c \in Callers : rl_pc[c] = "sleeping" => rate_lock = c

(***************************************************************************)
(* Claims: entry signal                                                    *)
(***************************************************************************)
FilterPasses(f, direction) ==
    CASE f = "RSI"    -> check_rsi(sig_df, direction)
      [] f = "EMA"    -> check_ema_trend(sig_df, direction)
      [] f = "ADX"    -> check_adx(sig_df)
      [] f = "Volume" -> check_volume_spike(sig_df)
      [] f = "ATR"    -> check_atr_filter(sig_df)
EnabledFilters == { f \in Filters : sig_settings[f] }
DirectionValid(direction) ==
    EnabledFilters # {} /\ \A f \in EnabledFilters : FilterPasses(f, direction)

\* C20: for every setting of the five toggles and every outcome of the filters,
\* generate_signal returns LONG when a filter is enabled and all enabled
\* filters pass for LONG, else SHORT when a filter is enabled and all enabled
\* filters pass for SHORT, else none; so none when all filters are off and
\* LONG when both directions pass.
C20_SignalTruthTable ==
    (sig_out # "pending" /\ ~sig_df.empty) =>
        sig_out = (IF DirectionValid("LONG") THEN "LONG"
                   ELSE IF DirectionValid("SHORT") THEN "SHORT"
                   ELSE "NONE")

\* a call with only direction-free filters enabled, all passing: both
\* directions are valid and LONG is returned
C20_Witness ==
    /\ sig_out = "LONG"
    /\ ~sig_df.empty
    /\ EnabledFilters = {"ADX", "Volume", "ATR"}
    /\ DirectionValid("LONG") /\ DirectionValid("SHORT")

(***************************************************************************)
(* Claims: pair tasks                                                      *)
(***************************************************************************)
\* C2: at most one run_loop task is alive per symbol and every alive run_loop
\* task is the one recorded in tasks[symbol].
C2_OneTaskPerSymbol ==
    /\ \A t \in TaskIds : TaskAlive(t) => tasks[task_sym[t]] = t
    /\ \A t, u \in TaskIds :
         TaskAlive(t) /\ TaskAlive(u) /\ task_sym[t] = task_sym[u] => t = u

\* C8: once the stop_all_pairs spawned by the third consecutive loss has run
\* to completion (and no pair was started since), every worker's running flag
\* is false and tasks is empty.
C8_RiskStopsEverything ==
    (stop_all.pc = "done" /\ ~started_after_trigger) =>
        /\ \A s \in Pairs : ~worker_running[s]
        /\ \A s \in Pairs : tasks[s] = NoTask

(***************************************************************************)
(* Claims: the pair worker                                                 *)
(***************************************************************************)
\* C1: no entry or safety order is submitted while an earlier entry or safety
\* order of the symbol is still pending: the exchange never holds two open
\* entry/safety orders of the symbol at once.
C1_OnePendingOrder == Cardinality(PendingOrders(ex_orders)) <= 1

\* C3: position_open is true if and only if total_qty > 0.
C3_OpenIffQty == worker.position_open <=> worker.total_qty > 0

C5_SafetyWithinCount ==
    worker.position_open =>
        worker.safety_orders_used <= worker.strategy_settings.safety_orders_count

\* C6: while a position is open (take_profit_pct > 0), take_profit_price is
\* set and lies strictly above average_price for LONG, strictly below for SHORT.
C6_TakeProfitBeyondAverage ==
    (worker.position_open /\ worker.strategy_settings.take_profit_pct > 0) =>
        /\ ~RatIsNone(worker.take_profit_price)
        /\ IF worker.direction = "LONG"
           THEN RatLess(worker.average_price, worker.take_profit_price)
           ELSE RatLess(worker.take_profit_price, worker.average_price)

\* the cooldown after the last close is running at loop time t
InCooldown(t) ==
    /\ worker.strategy_settings.cooldown_minutes > 0
    /\ t - closed_at < worker.strategy_settings.cooldown_minutes * 60

\* price p lies within the anti-re-entry band around the last close's price
InReentryBand(p) ==
    /\ closed_price > 0
    /\ p # NoPrice
    /\ (IF p >= closed_price THEN p - closed_price ELSE closed_price - p) * 100
         < worker.strategy_settings.anti_reentry_threshold_pct * closed_price

\* C7: no entry order is submitted at a time when the cooldown is
\* running or the price lies within the anti-re-entry band of the last close.
C7_NoEntryWhenBlocked ==
    last_step = "submit_entry" => ~InCooldown(now) /\ ~InReentryBand(prices[MainSymbol])

(***************************************************************************)
(* C21: two run_backtest calls on the same loaded frame with the same      *)
(* settings give the same report, the same trade list and the same equity  *)
(* curve, whatever ran on the engine before either of them.                *)
(***************************************************************************)
C21_BacktestDeterministic ==
    \A i, j \in 1..Len(bt_runs) :
        (bt_runs[i].dataframe = bt_runs[j].dataframe /\ bt_runs[i].settings = bt_runs[j].settings)
            => /\ bt_runs[i].report = bt_runs[j].report
               /\ bt_runs[i].trade_results = bt_runs[j].trade_results
               /\ bt_runs[i].equity_curve = bt_runs[j].equity_curve

\* the same frame and settings were run twice with another run between them, and
\* the runs closed trades
C21_Witness ==
    /\ Len(bt_runs) = 3
    /\ bt_runs[1].dataframe = bt_runs[3].dataframe /\ bt_runs[1].settings = bt_runs[3].settings
    /\ bt_runs[2].dataframe # bt_runs[1].dataframe
    /\ bt_runs[1].report.total_trades > 0 /\ bt_runs[2].report.total_trades > 0

(***************************************************************************)
(* C22: the pagination loop terminates; a response ends it exactly when it *)
(* is empty, shorter than the page limit, or its last open time has        *)
(* reached the end time; otherwise the next request starts at the last     *)
(* open time + 1, and the startTime values of one call strictly increase.  *)
(***************************************************************************)
StartTimesIncrease ==
    \A i, j \in 1..Len(pg_starts) : i < j => pg_starts[i] < pg_starts[j]

PageStepRule ==
    (pg_pc = "get" /\ pg_pc' # "raised") =>
        LET payload == pg_page'
            last == payload = <<>> \/ Len(payload) < PageLimit
                              \/ payload[Len(payload)] >= pg_params.endTime
        IN  /\ (pg_pc' = "done") <=> last
            /\ (pg_pc' = "get") <=> ~last
            /\ ~last => pg_params'.startTime = payload[Len(payload)] + 1

C22_PaginationTerminates ==
    /\ (pg_pc = "get") ~> (pg_pc \in {"done", "raised"})
    /\ [][PageStepRule]_vars
    /\ []StartTimesIncrease

\* a call that needed a second request and ended on a full page that reached the
\* end time
C22_Witness ==
    /\ pg_pc = "done"
    /\ Len(pg_starts) = 2
    /\ Len(pg_page) = PageLimit
    /\ Len(pg_rows) = 2 * PageLimit

(***************************************************************************)
(* C23: safety_orders_used grows only by a filled safety order, and then   *)
(* by one: a step that adds nothing to total_qty (the order was rejected,  *)
(* not placed, or cancelled at the timeout) leaves safety_orders_used,     *)
(* total_qty and total_cost as they were.                                  *)
(***************************************************************************)
C23_SafetyCountedOnFill ==
    [][ worker'.safety_orders_used > worker.safety_orders_used
            => /\ worker'.safety_orders_used = worker.safety_orders_used + 1
               /\ worker'.total_qty > worker.total_qty
               /\ worker'.total_cost > worker.total_cost ]_vars

(***************************************************************************)
(* C24: _periodic_position_sync resets an open local position only when    *)
(* the exchange holds nothing for the symbol: never for a Paper position   *)
(* (it exists only locally), and in spot and futures mode only when the    *)
(* amount the worker bought is gone from the exchange.                     *)
(***************************************************************************)
C24_SyncResetsOnlyGhosts ==
    [][ (pc = "sync" /\ worker.position_open /\ ~worker'.position_open)
            => (worker.strategy_settings.run_mode # "Paper" /\ ex_amt = 0) ]_vars

(***************************************************************************)
(* C25: a position is reported closed at most once, whether the worker's   *)
(* own close (take-profit, break-even) or a manual close-now ends it: the  *)
(* trade-closed reports never outnumber the positions that fills opened.   *)
(***************************************************************************)
C25_OneReportPerPosition == worker.opened_minus_reported >= 0

(***************************************************************************)
(* C26: with a constant balance, the total_cost of all open positions      *)
(* together never exceeds balance * max_total_exposure_pct / 100, however  *)
(* the workers' entries and safety orders interleave.                      *)
(***************************************************************************)
C26_ExposureWithinLimit ==
    get_total_open_exposure_usdt(fleet) * 100 <= Balance * max_total_exposure_pct

RemovalSettled(sym) ==
    /\ reg_op.op \in {"remove_pair", "save_pair_config", "subscribe"}
    /\ ~pairs[sym].present
    /\ sym \notin remove_call
    /\ \A c \in background : c.sym # sym
    /\ \A job \in store_jobs : job.sym # sym

C28_RemovedPairLeavesNothing ==
    \A sym \in FeedSymbols :
        RemovalSettled(sym) =>
            /\ ~db[sym].present
            /\ tasks[sym] = NoTask
            /\ sym \notin subscribed_pairs

(***************************************************************************)
(* C29: whenever the worker is flat no settings update is left stashed,    *)
(* and the settings in effect are those of the most recent update.         *)
(***************************************************************************)
C29_FlatWorkerHasLatestSettings ==
    (boot = "up" /\ ~worker.position_open) =>
        /\ worker.pending_strategy_settings = NoSettings
        /\ worker.strategy_settings = pair_settings

(***************************************************************************)
(* C30: a settings update made while a position is open leaves             *)
(* strategy_settings as they are and does not change whether the worker    *)
(* manages the position as a futures or as a spot position.                *)
(***************************************************************************)
C30_UpdateKeepsPositionParameters ==
    [][(worker.position_open /\ pair_settings' # pair_settings) =>
           /\ worker'.strategy_settings = worker.strategy_settings
           /\ is_futures_mode(worker') = is_futures_mode(worker)]_vars

(***************************************************************************)
(* C31: a worker restored from its own runtime snapshot has the position   *)
(* fields of the worker the snapshot was taken from.                       *)
(***************************************************************************)
RestoredFromOwnSnapshot ==
    apply_runtime_state(NewWorker(worker.strategy_settings),
                        get_runtime_state(worker, worker.running))

C31_RuntimeRoundTrip ==
    LET r == RestoredFromOwnSnapshot IN
    /\ r.position_open = worker.position_open
    /\ r.direction = worker.direction
    /\ r.average_price = worker.average_price
    /\ r.total_qty = worker.total_qty
    /\ r.total_cost = worker.total_cost
    /\ r.last_order_usdt = worker.last_order_usdt
    /\ r.safety_orders_used = worker.safety_orders_used
    /\ r.take_profit_price = worker.take_profit_price
    /\ r.break_even_armed = worker.break_even_armed
    /\ r.break_even_price = worker.break_even_price
    /\ r.last_close_timestamp = worker.last_close_timestamp
    /\ r.last_close_price = worker.last_close_price

(***************************************************************************)
(* C32: a pair whose worker task is running when shutdown begins is saved  *)
(* with is_running true, so that the next initialize starts it again.      *)
(***************************************************************************)
C32_RunningPairSavedRunning ==
    [][(restarts' # restarts /\ pc # "none") => store_runtime'.is_running]_vars

(***************************************************************************)
(* C33: when emergency_stop completes, the worker's task is gone, its      *)
(* running flag is false, and the order manager holds no active order for  *)
(* the symbol.                                                             *)
(***************************************************************************)
C33_EmergencyStopLeavesNothing ==
    [][(emergency = "pass" /\ emergency' = "done") =>
           /\ pc' = "none"
           /\ ~worker'.running
           /\ active_order' = NoOrder]_vars

(***************************************************************************)
(* C34: in futures mode the break-even step arms at the first tick whose   *)
(* unrealized profit percent reaches break_even_after_percent and does not *)
(* close at that tick; once armed the flag stays until the position        *)
(* closes, and the step closes the position at the first tick whose price  *)
(* has come back to break_even_price; outside futures mode the step does   *)
(* nothing and nothing arms.                                               *)
(***************************************************************************)
BreakEvenStep == pc = "be" /\ pc' # "be"
FuturesTick ==
    /\ BreakEvenStep /\ is_futures_mode(worker) /\ worker.position_open
    /\ prices[MainSymbol] # NoPrice /\ worker.average_price.n > 0
\* (price - average) / average * 100 >= break_even_after_percent, mirrored for SHORT
ProfitPctReached ==
    LET a == worker.average_price
        q == prices[MainSymbol]
        gain == IF worker.direction = "LONG" THEN q * a.d - a.n ELSE a.n - q * a.d
    IN  gain * 100 >= worker.strategy_settings.break_even_after_percent * a.n
Retraced ==
    LET b == worker.break_even_price
        q == prices[MainSymbol]
    IN  IF worker.direction = "LONG" THEN q * b.d <= b.n ELSE q * b.d >= b.n
BreakEvenCloseBegun ==
    \/ ~worker'.position_open
    \/ pc' = "closing" /\ loc'.reason = "BREAK_EVEN"

EntryWatchdogStep == pc = "order_cancel" /\ loc.kind = "entry" /\ pc' = pc_after_order("entry")
PositionStateKept ==
    /\ worker'.position_open = worker.position_open
    /\ worker'.total_qty = worker.total_qty
    /\ worker'.total_cost = worker.total_cost
    /\ worker'.average_price = worker.average_price
    /\ worker'.take_profit_price = worker.take_profit_price
    /\ worker'.safety_orders_used = worker.safety_orders_used

C35_UnfilledEntryIsCancelled ==
    [][/\ (pc \in {"order_wait", "order_cancel"} /\ loc.kind = "entry") =>
              loc.elapsed <= worker.strategy_settings.order_timeout_sec
       /\ EntryWatchdogStep =>
              /\ ex_orders'[loc.order_id].status = "CANCELED"
              /\ active_order' = NoOrder
              /\ PositionStateKept
              /\ ~worker'.order_in_progress]_vars

(***************************************************************************)
(* C36: a resync of a Live pair that completes without error leaves        *)
(* position_open true exactly when the exchange reports a non-zero futures *)
(* position or a positive spot balance, with direction LONG for a positive *)
(* and SHORT for a negative futures amount; a second resync against the    *)
(* same exchange state and price changes nothing; a resync of a pair that  *)
(* is not Live changes nothing.                                            *)
(***************************************************************************)
ResyncCompleted == boot # boot' /\ last_step' = "resync"
ExchangeHolds == IF worker.mode = "Futures" THEN ex_amt # 0 ELSE ex_amt > 0

C36_ResyncMatchesExchange ==
    [][ResyncCompleted =>
         IF worker.strategy_settings.run_mode = "Live"
         THEN /\ worker'.position_open <=> ExchangeHolds
              /\ (worker.mode = "Futures" /\ ex_amt > 0) => worker'.direction = "LONG"
              /\ (worker.mode = "Futures" /\ ex_amt < 0) => worker'.direction = "SHORT"
              /\ (boot = "again" /\ last_step = "resync") => worker' = worker
         ELSE worker' = worker]_vars

\* a second resync has run right after the first and the pair holds the
\* exchange's SHORT position
C36_Witness ==
    /\ boot = "up" /\ last_step = "resync"
    /\ worker.strategy_settings.run_mode = "Live"
    /\ worker.position_open /\ worker.direction = "SHORT" /\ worker.total_qty = 15

(***************************************************************************)
(* C37: an exception in a step of an iteration leaves the loop alive, with *)
(* the next tick to come; a cancellation ends the task with running false; *)
(* after either, order_in_progress and safety_order_in_progress are false, *)
(* and at no time is one of them set unless the task stands inside the     *)
(* order placement that set it.                                            *)
(***************************************************************************)
\* a step left the iteration before its end: the handler of run_loop caught it
IterationRaised == pc \notin {"sync", "sleep", "none"} /\ pc' = "sleep"
TaskEnded == pc # "none" /\ pc' = "none"
PlacingOrder == pc' \in {"order_wait", "order_cancel"}

C37_NoStuckOrderFlag ==
    [][/\ IterationRaised =>
              /\ worker'.running = worker.running
              /\ ~worker'.order_in_progress /\ ~worker'.safety_order_in_progress
       /\ (pc = "sleep" /\ pc' \notin {"sleep", "none"}) => pc' = "candle"
       /\ TaskEnded =>
              /\ ~worker'.running
              /\ ~worker'.order_in_progress /\ ~worker'.safety_order_in_progress
       /\ worker'.order_in_progress => PlacingOrder
       /\ worker'.safety_order_in_progress => PlacingOrder /\ loc'.kind = "safety"]_vars

\* the task was cancelled while its safety order was waiting on the exchange
C37_Witness ==
    /\ pc = "none" /\ ~worker.running
    /\ worker.position_open /\ active_order # NoOrder
    /\ ex_orders[active_order].status = "NEW"

(***************************************************************************)
(* C38: a safety order is submitted with the notional of the position's    *)
(* most recent filled order times volume_multiplier.  While                *)
(* safety_orders_used is 0 the only filled order of the position is its    *)
(* base order, so the first safety order has the notional                  *)
(* base_order_size_usdt * volume_multiplier.                               *)
(***************************************************************************)
SafetySubmitted == pc = "dca" /\ last_step' = "submit_safety"

C38_SafetyNotionalFollowsLastFill ==
    [][(SafetySubmitted /\ worker.safety_orders_used = 0) =>
           worker'.last_order_usdt = worker.strategy_settings.base_order_size_usdt
                                      * worker.strategy_settings.volume_multiplier]_vars

(***************************************************************************)
(* C39: the steps of an iteration run in the order strategy/entry, DCA,    *)
(* break-even, take-profit, reconciliation; take-profit is evaluated only  *)
(* when that tick's DCA step is over, on the take-profit price of the      *)
(* current average; after a close by break-even the take-profit step of    *)
(* the same tick does nothing.                                             *)
(***************************************************************************)
\* the step of the iteration the task is in, or is about to run
Stage(at, l) ==
    CASE at \in {"candle", "sizing"} -> "entry"
      [] at \in {"order_wait", "order_cancel"} -> IF l.kind = "entry" THEN "entry" ELSE "dca"
      [] at = "closing" -> IF l.reason = "BREAK_EVEN" THEN "be" ELSE "tp"
      [] OTHER -> at
NextStage(stage) ==
    CASE stage = "entry" -> "dca"
      [] stage = "dca" -> "be"
      [] stage = "be" -> "tp"
      [] stage = "tp" -> "sync"
      [] stage = "sync" -> "sleep"
      [] stage = "sleep" -> "entry"
      [] OTHER -> "entry"

C39_StepsRunInOrder ==
    [][/\ \/ Stage(pc', loc') \in {Stage(pc, loc), NextStage(Stage(pc, loc)), "none"}
          \/ IterationRaised
       /\ pc' = "tp" =>
              /\ ~worker'.order_in_progress /\ ~worker'.safety_order_in_progress
              /\ (worker'.position_open /\ worker'.average_price.n > 0) =>
                     worker'.take_profit_price = recalculate_tp(worker').take_profit_price
       /\ (Stage(pc, loc) = "be" /\ pc' # pc /\ pc' # "none"
             /\ worker.position_open /\ ~worker'.position_open) => pc' = "tp"
       /\ (pc = "tp" /\ pc' # pc /\ ~worker.position_open) =>
              /\ pc' = "sync" /\ worker' = worker
              /\ closed_at' = closed_at /\ closed_price' = closed_price]_vars

\* break-even is closing a LONG futures position that the exchange holds: the
\* take-profit step of this tick comes after the close
C39_Witness ==
    /\ pc = "closing" /\ loc.reason = "BREAK_EVEN"
    /\ is_futures_mode(worker) /\ worker.position_open /\ worker.direction = "LONG"
    /\ ex_amt > 0

(***************************************************************************)
(* C40: a grid search evaluates every combination of the Cartesian product *)
(* of the parameter lists exactly once, never has more than                *)
(* max_parallel_tasks evaluations running, and ends; when it returns, the  *)
(* result list has one entry per combination and is ordered by descending  *)
(* profit_factor, then ascending max_drawdown, then descending             *)
(* total_profit.                                                           *)
(***************************************************************************)
ListValues(xs) == {xs[i] : i \in DOMAIN xs}
\* every pair of listed values is one combination, at one index
IsCartesianProduct ==
    /\ Len(grid.combinations) = Len(grid.ranges.take_profit_pct)
                                 * Len(grid.ranges.safety_step_pct)
    /\ \A a \in ListValues(grid.ranges.take_profit_pct),
          b \in ListValues(grid.ranges.safety_step_pct) :
         \E i \in DOMAIN grid.combinations :
           grid.combinations[i] = [take_profit_pct |-> a, safety_step_pct |-> b]
InRankOrder(a, b) ==
    \/ RatLess(b.profit_factor, a.profit_factor)
    \/ /\ a.profit_factor = b.profit_factor
       /\ RatLess(a.max_drawdown, b.max_drawdown)
    \/ /\ a.profit_factor = b.profit_factor /\ a.max_drawdown = b.max_drawdown
       /\ RatLeq(b.total_profit, a.total_profit)
GridSearchSafe ==
    /\ Cardinality(running_tasks(grid)) <= max_parallel_tasks
    /\ \A i \in DOMAIN grid.launched : grid.launched[i] <= 1
    /\ grid.phase # "idle" => IsCartesianProduct
    /\ grid.phase = "ranked" =>
         /\ \A i \in DOMAIN grid.launched : grid.launched[i] = 1
         /\ Len(grid.results) = Len(grid.combinations)
         /\ {grid.results[j].index : j \in DOMAIN grid.results} = DOMAIN grid.combinations
         /\ \A j \in DOMAIN grid.results :
              grid.results[j].params = grid.combinations[grid.results[j].index]
         /\ \A j \in 1..(Len(grid.results) - 1) :
              InRankOrder(grid.results[j], grid.results[j + 1])

C40_GridSearchCoversProduct ==
    /\ []GridSearchSafe
    /\ (grid.phase = "gather") ~> (grid.phase \in {"ranked", "failed"})

\* a search over four combinations has returned; the semaphore was used up
\* on the way, and the ranking put a combination with a positive profit factor
\* before the first combination, which made more profit
C40_Witness ==
    /\ grid.phase = "ranked" /\ Len(grid.results) = 4
    /\ grid.peak = max_parallel_tasks
    /\ grid.results[1].index # 1 /\ grid.results[1].profit_factor.n > 0
    /\ \E j \in 2..4 : /\ grid.results[j].index = 1
                        /\ RatLess(grid.results[1].total_profit, grid.results[j].total_profit)

====
